---- MODULE Spec2Model ----
(***************************************************************************)
(* A model of the tsuru ingress router (src/kubernetes/ingress.go): the    *)
(* route objects, secrets and services it keeps in the cluster store, and  *)
(* one action per public operation of IngressService.                      *)
(*                                                                         *)
(* The source holds two generations of the service.  The first (lines      *)
(* 1-237: Create, Update, Swap, Remove) writes route objects with a        *)
(* single-backend spec (Spec.Backend) and the swapped-with label; the      *)
(* second (lines 239-890: Ensure, Remove with a context, the certificate   *)
(* operations) writes rule-based specs, alias siblings and secrets.  Both  *)
(* address an application's primary route object, which the second         *)
(* generation expects to find with a single-backend spec (lines 431-433),  *)
(* so the model keeps one primary route object per application and         *)
(* namespace.  The first generation names it <app>-ingress (line 222),     *)
(* the second kubernetes-router-<app>-ingress (line 651); the model        *)
(* addresses it by the second's ingressName in both, which is what lets    *)
(* an object written by the first generation be found by the second.       *)
(*                                                                         *)
(* Every action is one whole call.  The store is the external cluster      *)
(* resource store: create fails on an existing name, update checks the     *)
(* version token (ResourceVersion), and any call may fail with an error    *)
(* of its own (the faults input of each action names the calls that do).   *)
(***************************************************************************)
EXTENDS Integers, Sequences, FiniteSets, TLC

VARIABLES
  ingresses,  \* the route objects in the store: <<namespace, name>> -> object
  secrets,    \* the secrets in the store: <<namespace, name>> -> secret
  services,   \* the services in the store, in listing order (not written here)
  apprecs,    \* the application registration records: app -> namespace ("" = no record)
  config,     \* the operator's settings of IngressService (fixed at start)
  last,       \* the call that ended last: operation, inputs, error, store calls
  pre,        \* ingresses as they were when the last call started
  presecrets, \* secrets as they were when the last call started
  ret,        \* what the last call returned besides its error
  jobs,       \* the calls in progress, each between its read and its writes
  added,      \* per (app, host): the material of the last successful
              \* AddCertificate, until RemoveCertificate is called for it
  rollbackFailed, \* whether some Swap so far ended with a failed rollback
  nops        \* the number of calls so far

vars == <<ingresses, secrets, services, apprecs, config, last, pre,
          presecrets, ret, jobs, added, rollbackFailed, nops>>

----------------------------------------------------------------------------
(* Bounds of the model *)

\* the number of calls in a behaviour of Spec, SpecSwap and SpecEnsure
MaxOps == 4
MaxSwapOps == 5
MaxEnsureOps == 3
\* the number of calls in a behaviour of SpecResolve and of SpecNamespace
MaxResolveOps == 2
MaxNamespaceOps == 3
\* the number of services an application has in SpecResolve
MaxServices == 3

----------------------------------------------------------------------------
(* Constants of the program *)

defaultServicePort == 8888
appLabel == "tsuru.io/app-name"
processLabel == "tsuru.io/app-process"
swapLabel == "tsuru.io/swapped-with"
webProcessName == "web"

\* IngressService.Namespace / BaseService.Namespace: the configured default
Namespace == "default"

----------------------------------------------------------------------------
(* Go maps: a lookup of a missing key yields the zero value *)

MapGet(m, k) == IF k \in DOMAIN m THEN m[k] ELSE ""

MapPut(m, k, v) == [x \in DOMAIN m \cup {k} |-> IF x = k THEN v ELSE m[x]]

MapDel(m, k) == [x \in DOMAIN m \ {k} |-> m[x]]

----------------------------------------------------------------------------
(* Errors *)

NoErr == [kind |-> "nil", a |-> "", b |-> ""]

ErrNoService(app, process) == [kind |-> "ErrNoService", a |-> app, b |-> process]

ErrAppSwapped(app, dstApp) == [kind |-> "ErrAppSwapped", a |-> app, b |-> dstApp]

\* the store's errors: NotFound, AlreadyExists, Conflict, and any other (Failed)
StoreErr(kind) == [kind |-> kind, a |-> "", b |-> ""]

\* a nil pointer or an index out of range: the call ends there (the HTTP
\* layer recovers it), nothing more is written
Panic == [kind |-> "panic", a |-> "", b |-> ""]

\* fmt.Errorf("failed to rollback swap %v: %v", err, errRollback)
\* the original failure alone, the failure of the rollback dropped
ErrRollback_OriginalOnly(err, errRollback) == err

ErrRollback(err, errRollback) ==
  [kind |-> "failed to rollback swap", a |-> err.kind, b |-> errRollback.kind]

IsNotFound(err) == err.kind = "NotFound"

----------------------------------------------------------------------------
(* The cluster resource store *)

\* Get: the stored object, or NotFound
StoreGet(st, key, fail) ==
  IF fail THEN [err |-> StoreErr("Failed"), obj |-> <<>>]
  ELSE IF key \notin DOMAIN st THEN [err |-> StoreErr("NotFound"), obj |-> <<>>]
  ELSE [err |-> NoErr, obj |-> <<st[key]>>]

\* Create: refused when the name exists; the store sets the version token
StoreCreate(st, key, obj, fail) ==
  IF fail THEN [err |-> StoreErr("Failed"), st |-> st]
  ELSE IF key \in DOMAIN st THEN [err |-> StoreErr("AlreadyExists"), st |-> st]
  ELSE [err |-> NoErr, st |-> MapPut(st, key, [obj EXCEPT !.ResourceVersion = 1])]

\* Update: the object written must carry the version token of the stored
\* one; an object without a version token (0) overwrites whatever is stored
StoreUpdate(st, key, obj, fail) ==
  IF fail THEN [err |-> StoreErr("Failed"), st |-> st]
  ELSE IF key \notin DOMAIN st THEN [err |-> StoreErr("NotFound"), st |-> st]
  ELSE IF obj.ResourceVersion # 0 /\ obj.ResourceVersion # st[key].ResourceVersion
    THEN [err |-> StoreErr("Conflict"), st |-> st]
  ELSE [err |-> NoErr,
        st |-> [st EXCEPT ![key] =
                  [obj EXCEPT !.ResourceVersion = st[key].ResourceVersion + 1]]]

\* Delete: NotFound when the name is absent
StoreDelete(st, key, fail) ==
  IF fail THEN [err |-> StoreErr("Failed"), st |-> st]
  ELSE IF key \notin DOMAIN st THEN [err |-> StoreErr("NotFound"), st |-> st]
  ELSE [err |-> NoErr, st |-> MapDel(st, key)]

\* one entry of a call's log of store calls: the verb, the object addressed,
\* the application it was issued for, and whether the store applied it
Entry(verb, key, app, res) ==
  [verb |-> verb, key |-> key, app |-> app, applied |-> res.err = NoErr,
   err |-> res.err.kind, kind |-> "ingress"]

\* the same for a call on the secrets
SecretEntry(verb, key, app, res) ==
  [Entry(verb, key, app, res) EXCEPT !.kind = "secret"]

\* whether the call named (verb, what) is one of those that fail
Fails(faults, verb, what) == <<verb, what>> \in faults

----------------------------------------------------------------------------
(* Names *)

\* the width of the digest that ends a shortened name
DigestLen == 16

\* the digest of a name (not in src/; spec 4.9): a string of DigestLen
\* characters that the name determines, here its last ones
Digest(name) == SubSeq(name, Len(name) - DigestLen + 1, Len(name))

\* hashedResourceName (not in src/; spec 4.9): the composed name as long as
\* it fits the limit, else its beginning and its digest, limit characters
hashedResourceName(id, name, limit) ==
  IF Len(name) <= limit THEN name
  ELSE SubSeq(name, 1, limit - DigestLen - 1) \o "-" \o Digest(name)

\* the sibling's name composed without the limit
ingressCName_Unhashed(id, cname) == "kubernetes-router-cname-" \o cname

\* the name of an application's primary route object
ingressName(id) == hashedResourceName(id, "kubernetes-router-" \o id \o "-ingress", 253)

\* the name of the sibling route object of an alias
ingressCName(id, cname) == hashedResourceName(id, "kubernetes-router-cname-" \o cname, 253)

\* the name of the secret of a certificate
secretName(id, certName) == hashedResourceName(id, "kr-" \o id \o "-" \o certName, 253)

----------------------------------------------------------------------------
(* The record of a call *)

NoOpts ==
  [CNames |-> <<>>, PreserveOldCNames |-> FALSE, Acme |-> FALSE,
   AdditionalOpts |-> <<>>, Domain |-> "", DomainPrefix |-> "",
   DomainSuffix |-> "", Route |-> ""]

NoCert == [Certificate |-> "", Key |-> ""]

Call(op, app, dst, opts, err, calls, service) ==
  [op |-> op, app |-> app, dst |-> dst, opts |-> opts, err |-> err,
   calls |-> calls, service |-> service, host |-> "", cert |-> NoCert,
   ready |-> FALSE, probe |-> ""]

\* the record of a certificate call: the host and the material it names
CertCall(op, app, host, cert, err, calls) ==
  [Call(op, app, "", NoOpts, err, calls, "") EXCEPT !.host = host, !.cert = cert]

NoCall == Call("", "", "", NoOpts, NoErr, <<>>, "")

\* the creates, updates and deletes a call issued that the store applied
Writes(call) ==
  SelectSeq(call.calls,
            LAMBDA e : e.verb \in {"create", "update", "delete"} /\ e.applied)

\* what a call returns besides its error: the certificate and key of
\* GetCertificate, the status and detail of GetStatus
NoRet == [Certificate |-> "", Key |-> "", status |-> "", detail |-> ""]

\* the certificates added and not yet asked to be removed, after the call
Added(was, call) ==
  IF call.op = "AddCertificate" /\ call.err = NoErr
    THEN MapPut(was, <<call.app, call.host>>, call.cert)
  ELSE IF call.op = "RemoveCertificate"
    THEN MapDel(was, <<call.app, call.host>>)
  ELSE was

\* the end of a call: the route objects and the secrets as the call leaves
\* them, the call's record, what it returned, and the calls in progress
FinishJobs(call, st, sec, r, j) ==
  /\ ingresses' = st
  /\ secrets' = sec
  /\ pre' = ingresses
  /\ presecrets' = secrets
  /\ last' = call
  /\ ret' = r
  /\ added' = Added(added, call)
  /\ rollbackFailed' = (rollbackFailed \/ call.err.kind = "failed to rollback swap")
  /\ nops' = nops + 1
  /\ jobs' = j
  /\ UNCHANGED <<services, apprecs, config>>

\* the end of a call that ran from its read to its last write at once
FinishAll(call, st, sec, r) == FinishJobs(call, st, sec, r, jobs)

\* the end of a call that leaves the secrets alone and returns its error only
Finish(call, st) == FinishAll(call, st, secrets, NoRet)

----------------------------------------------------------------------------
(* First generation: Create, Update, Swap, Remove *)

Create(appName, faults) ==
  LET ingress ==
        [Labels |-> (appLabel :> appName),
         Annotations |-> <<>>,
         Spec |-> [Backend |-> <<[ServiceName |-> appName,
                                  ServicePort |-> defaultServicePort]>>,
                   Rules |-> <<>>,
                   TLS |-> <<>>],
         OwnerReferences |-> <<>>,
         ResourceVersion |-> 0]
      key == <<Namespace, ingressName(appName)>>
      c == StoreCreate(ingresses, key, ingress, Fails(faults, "create", appName))
  IN Finish(Call("Create", appName, "", NoOpts, c.err,
                 <<Entry("create", key, appName, c)>>, ""), c.st)

\* the services of a namespace carrying the application's label, in listing order
ListServices(ns, appName) ==
  SelectSeq(services, LAMBDA s : s.Namespace = ns /\ s.App = appName)

\* the index of the first service of the list labelled as the web process, or 0
FirstWeb(list) ==
  LET web == {i \in 1..Len(list) : list[i].Process = webProcessName}
  IN IF web = {} THEN 0 ELSE CHOOSE i \in web : \A j \in web : i <= j

\* Update's choice of the service (lines 89-105): the error, or the service
UpdateService(list, appName) ==
  IF Len(list) = 0 THEN [err |-> ErrNoService(appName, ""), service |-> <<>>]
  ELSE IF Len(list) > 1
    THEN IF FirstWeb(list) = 0
           THEN [err |-> ErrNoService(appName, webProcessName), service |-> <<>>]
           ELSE [err |-> NoErr, service |-> <<list[FirstWeb(list)]>>]
  ELSE [err |-> NoErr, service |-> <<list[1]>>]

Update(appName, faults) ==
  LET key == <<Namespace, ingressName(appName)>>
      done(err, calls, st, svc) ==
        Finish(Call("Update", appName, "", NoOpts, err, calls, svc), st)
      lfail == Fails(faults, "list", appName)
      l == Entry("list", <<Namespace, "services">>, appName,
                 [err |-> IF lfail THEN StoreErr("Failed") ELSE NoErr])
      sel == UpdateService(ListServices(Namespace, appName), appName)
      g == StoreGet(ingresses, key, Fails(faults, "get", appName))
      r == Entry("get", key, appName, g)
  IN IF lfail THEN done(StoreErr("Failed"), <<l>>, ingresses, "")
     ELSE IF sel.err # NoErr THEN done(sel.err, <<l>>, ingresses, "")
     ELSE LET service == sel.service[1] IN
       IF g.err # NoErr THEN done(g.err, <<l, r>>, ingresses, service.Name)
       ELSE LET ingress == g.obj[1] IN
         IF ingress.Spec.Backend = <<>>
           THEN done(Panic, <<l, r>>, ingresses, service.Name)
         ELSE IF ingress.Spec.Backend[1].ServiceName = service.Name
           THEN done(NoErr, <<l, r>>, ingresses, service.Name)
         ELSE IF service.Ports = <<>>
           THEN done(Panic, <<l, r>>, ingresses, service.Name)
         ELSE LET new == [ingress EXCEPT !.Spec.Backend =
                            <<[ServiceName |-> service.Name,
                               ServicePort |-> service.Ports[1]]>>]
                  u == StoreUpdate(ingresses, key, new,
                                   Fails(faults, "update", appName))
              IN done(u.err, <<l, r, Entry("update", key, appName, u)>>,
                      u.st, service.Name)

\* swap with the backends assigned one after the other: dst gets back the
\* backend src was just given
swap_NoExchange(srcIngress, dstIngress) ==
  LET db == dstIngress.Spec.Backend[1]
      src1 == [srcIngress EXCEPT !.Spec.Backend = <<db>>]
      dst1 == dstIngress
  IN IF MapGet(srcIngress.Labels, swapLabel) = MapGet(dstIngress.Labels, appLabel)
       THEN [src |-> [src1 EXCEPT !.Labels = MapDel(@, swapLabel)],
             dst |-> [dst1 EXCEPT !.Labels = MapDel(@, swapLabel)]]
       ELSE [src |-> [src1 EXCEPT !.Labels =
                        MapPut(@, swapLabel, MapGet(dstIngress.Labels, appLabel))],
             dst |-> [dst1 EXCEPT !.Labels =
                        MapPut(@, swapLabel, MapGet(srcIngress.Labels, appLabel))]]

\* swap (lines 227-237): the two objects with their backends exchanged and
\* the swapped-with labels toggled
swap(srcIngress, dstIngress) ==
  LET sb == srcIngress.Spec.Backend[1]
      db == dstIngress.Spec.Backend[1]
      src1 == [srcIngress EXCEPT !.Spec.Backend = <<db>>]
      dst1 == [dstIngress EXCEPT !.Spec.Backend = <<sb>>]
  IN IF MapGet(srcIngress.Labels, swapLabel) = MapGet(dstIngress.Labels, appLabel)
       THEN [src |-> [src1 EXCEPT !.Labels = MapDel(@, swapLabel)],
             dst |-> [dst1 EXCEPT !.Labels = MapDel(@, swapLabel)]]
       ELSE [src |-> [src1 EXCEPT !.Labels =
                        MapPut(@, swapLabel, MapGet(dstIngress.Labels, appLabel))],
             dst |-> [dst1 EXCEPT !.Labels =
                        MapPut(@, swapLabel, MapGet(srcIngress.Labels, appLabel))]]

\* the two writes in the other order: dst first, then src
SwapAfterGet_DstFirst(st, srcApp, dstApp, g1, g2, faults) ==
  LET ksrc == <<Namespace, ingressName(srcApp)>>
      kdst == <<Namespace, ingressName(dstApp)>>
  IN IF g1.obj[1].Spec.Backend = <<>> \/ g2.obj[1].Spec.Backend = <<>>
       THEN [err |-> Panic, st |-> st, calls |-> <<>>]
     ELSE
       LET s1 == swap(g1.obj[1], g2.obj[1])
           u1 == StoreUpdate(st, kdst, s1.dst, Fails(faults, "update", dstApp))
           u2 == StoreUpdate(u1.st, ksrc, s1.src, Fails(faults, "update", srcApp))
           w1 == Entry("update", kdst, dstApp, u1)
           w2 == Entry("update", ksrc, srcApp, u2)
       IN IF u1.err # NoErr THEN [err |-> u1.err, st |-> u1.st, calls |-> <<w1>>]
          ELSE [err |-> u2.err, st |-> u2.st, calls |-> <<w1, w2>>]

\* Swap after its two reads (lines 133-151), whose results are g1 and g2:
\* the error, the store as the writes leave it, the writes
SwapAfterGet(st, srcApp, dstApp, g1, g2, faults) ==
  LET ksrc == <<Namespace, ingressName(srcApp)>>
      kdst == <<Namespace, ingressName(dstApp)>>
  IN IF g1.obj[1].Spec.Backend = <<>> \/ g2.obj[1].Spec.Backend = <<>>
       THEN [err |-> Panic, st |-> st, calls |-> <<>>]
     ELSE
       LET s1 == swap(g1.obj[1], g2.obj[1])
           u1 == StoreUpdate(st, ksrc, s1.src, Fails(faults, "update", srcApp))
           u2 == StoreUpdate(u1.st, kdst, s1.dst, Fails(faults, "update", dstApp))
           s2 == swap(s1.src, s1.dst)
           u3 == StoreUpdate(u2.st, ksrc, s2.src, Fails(faults, "rollback", srcApp))
           w1 == Entry("update", ksrc, srcApp, u1)
           w2 == Entry("update", kdst, dstApp, u2)
           w3 == Entry("update", ksrc, srcApp, u3)
       IN IF u1.err # NoErr THEN [err |-> u1.err, st |-> u1.st, calls |-> <<w1>>]
          ELSE IF u2.err = NoErr
            THEN [err |-> NoErr, st |-> u2.st, calls |-> <<w1, w2>>]
          ELSE IF u3.err # NoErr
            THEN [err |-> ErrRollback(u2.err, u3.err), st |-> u3.st,
                  calls |-> <<w1, w2, w3>>]
          ELSE [err |-> u2.err, st |-> u3.st, calls |-> <<w1, w2, w3>>]

SwapCall(st, srcApp, dstApp, g1, g2, faults) ==
  LET ksrc == <<Namespace, ingressName(srcApp)>>
      kdst == <<Namespace, ingressName(dstApp)>>
      reads == <<Entry("get", ksrc, srcApp, g1), Entry("get", kdst, dstApp, g2)>>
  IN IF g1.err # NoErr
       THEN [err |-> g1.err, calls |-> <<Entry("get", ksrc, srcApp, g1)>>, st |-> st]
     ELSE IF g2.err # NoErr
       THEN [err |-> g2.err, calls |-> reads, st |-> st]
     ELSE [err |-> SwapAfterGet(st, srcApp, dstApp, g1, g2, faults).err,
           calls |-> reads \o SwapAfterGet(st, srcApp, dstApp, g1, g2, faults).calls,
           st |-> SwapAfterGet(st, srcApp, dstApp, g1, g2, faults).st]

Swap(srcApp, dstApp, faults) ==
  \E g1 \in {StoreGet(ingresses, <<Namespace, ingressName(srcApp)>>,
                      Fails(faults, "get", srcApp))} :
    \E g2 \in {StoreGet(ingresses, <<Namespace, ingressName(dstApp)>>,
                        Fails(faults, "get", dstApp))} :
      \E w \in {SwapCall(ingresses, srcApp, dstApp, g1, g2, faults)} :
        Finish(Call("Swap", srcApp, dstApp, NoOpts, w.err, w.calls, ""), w.st)

\* Remove of the first generation (lines 155-176): refused while swapped
Remove(appName, faults) ==
  LET key == <<Namespace, ingressName(appName)>>
      done(err, calls, st) ==
        Finish(Call("Remove", appName, "", NoOpts, err, calls, ""), st)
      g == StoreGet(ingresses, key, Fails(faults, "get", appName))
      d == StoreDelete(ingresses, key, Fails(faults, "delete", appName))
      r == Entry("get", key, appName, g)
  IN IF g.err # NoErr
       THEN done(IF IsNotFound(g.err) THEN NoErr ELSE g.err, <<r>>, ingresses)
     ELSE IF swapLabel \in DOMAIN g.obj[1].Labels
       THEN done(ErrAppSwapped(appName, g.obj[1].Labels[swapLabel]), <<r>>, ingresses)
     ELSE done(IF IsNotFound(d.err) THEN NoErr ELSE d.err,
               <<r, Entry("delete", key, appName, d)>>, d.st)

----------------------------------------------------------------------------
(* Strings that the code splits, joins and tests: sequences of tokens.     *)
(* Annotation keys and values and option names are such strings; a host    *)
(* name, a label, an application name is one token.                        *)

\* strings.Join(elems, sep)
RECURSIVE Join(_, _)
Join(elems, sep) ==
  IF Len(elems) = 0 THEN <<>>
  ELSE IF Len(elems) = 1 THEN <<elems[1]>>
  ELSE <<elems[1], sep>> \o Join(Tail(elems), sep)

\* the tokens of a piece as one host name
RECURSIVE Concat(_)
Concat(s) == IF Len(s) = 0 THEN "" ELSE s[1] \o Concat(Tail(s))

\* strings.Split(s, sep): the pieces between the separators; the empty
\* string splits into one empty piece
RECURSIVE SplitFrom(_, _, _)
SplitFrom(s, sep, piece) ==
  IF Len(s) = 0 THEN <<Concat(piece)>>
  ELSE IF s[1] = sep THEN <<Concat(piece)>> \o SplitFrom(Tail(s), sep, <<>>)
  ELSE SplitFrom(Tail(s), sep, Append(piece, s[1]))

Split(s, sep) == SplitFrom(s, sep, <<>>)

\* strings.Contains, strings.HasSuffix, strings.TrimSuffix for a one-token part
Contains(s, part) == \E i \in 1..Len(s) : s[i] = part

HasSuffix(s, part) == Len(s) > 0 /\ s[Len(s)] = part

TrimSuffix(s, part) == IF HasSuffix(s, part) THEN SubSeq(s, 1, Len(s) - 1) ELSE s

\* a lookup in a map of such strings
AnnGet(m, k) == IF k \in DOMAIN m THEN m[k] ELSE <<>>

\* mergeMaps (not in src/): the entries of both maps, those of the later one winning
mergeMaps(m1, m2) ==
  [k \in DOMAIN m1 \cup DOMAIN m2 |-> IF k \in DOMAIN m2 THEN m2[k] ELSE m1[k]]

\* the elements of a sequence
Range(s) == {s[i] : i \in 1..Len(s)}

----------------------------------------------------------------------------
(* Second generation: constants *)

AnnotationsACMEKey == <<"kubernetes.io", "/", "tls-acme">>
labelCNameIngress == "router.tsuru.io/is-cname-ingress"
AnnotationsCNames == <<"router.tsuru.io", "/", "cnames">>
defaultClassOpt == <<"class">>
defaultOptsAsAnnotations ==
  (defaultClassOpt :> <<"kubernetes.io", "/", "ingress.class">>)

\* labels defined outside src/ (used at lines 363, 364, 66 of part_000)
appBaseServiceNamespaceLabel == "router.tsuru.io/base-service-namespace"
appBaseServiceNameLabel == "router.tsuru.io/base-service-name"

----------------------------------------------------------------------------
(* Second generation: resolution *)

\* getAppNamespace (not in src/; spec 4.1): the namespace of the
\* application's registration record, the default one without a record
getAppNamespace(appName, faults) ==
  IF Fails(faults, "lookup", appName)
    THEN [err |-> StoreErr("LookupFailed"), ns |-> ""]
  ELSE [err |-> NoErr,
        ns |-> IF apprecs[appName] # "" THEN apprecs[appName] ELSE Namespace]

\* k.get (lines 619-633)
get(id, faults) ==
  LET n == getAppNamespace(id, faults)
      key == <<n.ns, ingressName(id)>>
      g == StoreGet(ingresses, key, Fails(faults, "get", id))
  IN IF n.err # NoErr THEN [err |-> n.err, obj |-> <<>>, calls |-> <<>>]
     ELSE [err |-> g.err, obj |-> g.obj, calls |-> <<Entry("get", key, id, g)>>]

\* getDefaultBackendTarget (not in src/): the target the request names
getDefaultBackendTarget(id, ns, faults) ==
  IF Fails(faults, "target", id)
    THEN [err |-> StoreErr("ErrNoBackendTarget"), target |-> <<>>]
  ELSE [err |-> NoErr, target |-> <<[Service |-> id, Namespace |-> ns]>>]

\* getWebService (not in src/; spec 4.2 and TestGetWebService): among the
\* services of the application that are not headless, the only one, or the
\* only one of the web process
getWebService(appName, ns) ==
  LET list == SelectSeq(ListServices(ns, appName), LAMBDA s : ~s.Headless)
      web == SelectSeq(list, LAMBDA s : s.Process = webProcessName)
  IN IF Len(list) = 0 THEN [err |-> ErrNoService(appName, ""), service |-> <<>>]
     ELSE IF Len(list) = 1 THEN [err |-> NoErr, service |-> <<list[1]>>]
     ELSE IF Len(web) = 1 THEN [err |-> NoErr, service |-> <<web[1]>>]
     ELSE [err |-> ErrNoService(appName, webProcessName), service |-> <<>>]

----------------------------------------------------------------------------
(* Second generation: the desired object and the diff *)

buildIngressSpec(host, path, service) ==
  [Backend |-> <<>>,
   Rules |-> <<[Host |-> host, Path |-> path,
                Backend |-> [ServiceName |-> service.Name,
                             ServicePort |-> service.Ports[1]]]>>,
   TLS |-> <<>>]

annotationWithPrefix(suffix) ==
  IF config.AnnotationsPrefix = <<>> THEN suffix
  ELSE config.AnnotationsPrefix \o <<"/">> \o suffix

\* the options of a request with the operator's ingress class (lines 806-811)
AdditionalOpts(routerOpts) ==
  IF config.IngressClass # <<>>
    THEN mergeMaps(routerOpts.AdditionalOpts, (defaultClassOpt :> config.IngressClass))
  ELSE routerOpts.AdditionalOpts

\* the annotation an option is written to (lines 815-822)
LabelName(optName) ==
  IF optName \in DOMAIN mergeMaps(defaultOptsAsAnnotations, config.OptsAsAnnotations)
    THEN mergeMaps(defaultOptsAsAnnotations, config.OptsAsAnnotations)[optName]
  ELSE IF Contains(optName, "/") THEN optName
  ELSE annotationWithPrefix(optName)

\* one option written to, or deleted from, the annotations (lines 823-827)
ApplyOpt(annotations, labelName, optValue) ==
  IF HasSuffix(labelName, "-")
    THEN MapDel(annotations, TrimSuffix(labelName, "-"))
  ELSE MapPut(annotations, labelName, optValue)

\* the loop of lines 814-828 over the options in the order ord
RECURSIVE ApplyOpts(_, _, _)
ApplyOpts(annotations, additionalOpts, ord) ==
  IF Len(ord) = 0 THEN annotations
  ELSE ApplyOpts(ApplyOpt(annotations, LabelName(ord[1]), additionalOpts[ord[1]]),
                 additionalOpts, Tail(ord))

\* the annotation of a request with ACME alone, no TLS entry
AcmeMeta_AnnotationOnly(m, routerOpts, id) ==
  IF ~routerOpts.Acme THEN m
  ELSE [m EXCEPT !.Annotations = MapPut(@, AnnotationsACMEKey, <<"true">>)]

\* the end of fillIngressMeta (lines 829-840): the TLS entry and the
\* annotation of a request with ACME
AcmeMeta(m, routerOpts, id) ==
  IF ~routerOpts.Acme THEN m
  ELSE [m EXCEPT
          !.Spec.TLS =
            IF Len(m.Spec.Rules) > 0
              THEN <<[Hosts |-> <<m.Spec.Rules[1].Host>>,
                      SecretName |-> secretName(id, m.Spec.Rules[1].Host)]>>
            ELSE @,
          !.Annotations = MapPut(@, AnnotationsACMEKey, <<"true">>)]

\* the operator's labels copied after the application's name is set
fillIngressMeta_OperatorLast(i, routerOpts, id, ord) ==
  AcmeMeta([i EXCEPT
              !.Labels = mergeMaps(MapPut(@, appLabel, id), config.Labels),
              !.Annotations = ApplyOpts(mergeMaps(@, config.Annotations),
                                        AdditionalOpts(routerOpts), ord)],
           routerOpts, id)

fillIngressMeta(i, routerOpts, id, ord) ==
  AcmeMeta([i EXCEPT
              !.Labels = MapPut(mergeMaps(@, config.Labels), appLabel, id),
              !.Annotations = ApplyOpts(mergeMaps(@, config.Annotations),
                                        AdditionalOpts(routerOpts), ord)],
           routerOpts, id)


ingressHasChanges(existing, ing) ==
  \/ existing.Spec # ing.Spec
  \/ \E key \in DOMAIN ing.Annotations :
       AnnGet(existing.Annotations, key) # ing.Annotations[key]
  \/ \E key \in DOMAIN ing.Labels :
       MapGet(existing.Labels, key) # ing.Labels[key]

\* diffCNames (not in src/; spec 4.5): the aliases to add and to remove
diffCNames(existing, expected) ==
  [toAdd |-> SelectSeq(expected, LAMBDA c : c \notin Range(existing)),
   toRemove |-> SelectSeq(existing, LAMBDA c : c \notin Range(expected))]

----------------------------------------------------------------------------
(* Second generation: alias siblings *)

\* errors.Wrapf(err, "could not ensure CName: %q", cname), and the like
Wrapf(err, message, cname) == [kind |-> message, a |-> cname, b |-> err.kind]

\* the update of lines 428-439 and 540-548: the desired object with the
\* version token and the single-backend pointer of the existing one
\* the desired object sent without the version token of the one read
UpdateObject_NoVersion(existing, ingress) ==
  [ingress EXCEPT
     !.Spec.Backend = IF existing.Spec.Backend # <<>>
                        THEN existing.Spec.Backend ELSE @]

\* the desired object sent with the version token of the one read, its
\* backend pointer not copied
UpdateObject_NoBackend(existing, ingress) ==
  [ingress EXCEPT !.ResourceVersion = existing.ResourceVersion]

UpdateObject(existing, ingress) ==
  [ingress EXCEPT
     !.ResourceVersion = existing.ResourceVersion,
     !.Spec.Backend = IF existing.Spec.Backend # <<>>
                        THEN existing.Spec.Backend ELSE @]

\* the result of a store call as a step of an operation: its error, the
\* store after it, and its entry in the log
Step(verb, key, app, res) ==
  [err |-> res.err, st |-> res.st, calls |-> <<Entry(verb, key, app, res)>>]

\* the step after the steps so far
Then(acc, step) ==
  [err |-> step.err, st |-> step.st, calls |-> acc.calls \o step.calls]

\* lines 420-441 and 535-550: g is what the read of the object gave; the
\* object is created when there was none, updated when it differs
CreateOrUpdate(st, key, g, ingress, app, cfail, ufail) ==
  IF IsNotFound(g.err)
    THEN Step("create", key, app, StoreCreate(st, key, ingress, cfail))
  ELSE IF ingressHasChanges(g.obj[1], ingress)
    THEN Step("update", key, app,
              StoreUpdate(st, key, UpdateObject(g.obj[1], ingress), ufail))
  ELSE [err |-> NoErr, st |-> st, calls |-> <<>>]

\* the second TLS entry of a sibling (lines 524-533)
CNameTLS(ingress, opts) ==
  IF AnnGet(ingress.Annotations, AnnotationsACMEKey) = <<"true">>
    THEN [ingress EXCEPT !.Spec.TLS =
            @ \o <<[Hosts |-> <<opts.cname>>,
                    SecretName |-> secretName(opts.id, opts.cname)]>>]
  ELSE ingress

\* the desired sibling route object (lines 501-533)
CNameIngress(opts, ord) ==
  CNameTLS(
    fillIngressMeta(
      [Labels |-> (appBaseServiceNamespaceLabel :> opts.service.Namespace)
                  @@ (appBaseServiceNameLabel :> opts.service.Name)
                  @@ (labelCNameIngress :> "true"),
       Annotations |-> <<>>,
       Spec |-> buildIngressSpec(opts.cname, opts.routerOpts.Route, opts.service),
       OwnerReferences |-> <<opts.service.Name>>,
       ResourceVersion |-> 0],
      opts.routerOpts, opts.id, ord),
    opts)

\* ensureCNameBackend after its read of the sibling, whose result is g
EnsureCNameAfterGet(st, key, g, opts, ord, faults) ==
  IF g.err # NoErr /\ ~IsNotFound(g.err)
    THEN [err |-> g.err, st |-> st, calls |-> <<Entry("get", key, opts.id, g)>>]
  ELSE Then([calls |-> <<Entry("get", key, opts.id, g)>>],
            CreateOrUpdate(st, key, g, CNameIngress(opts, ord), opts.id,
                           Fails(faults, "create", opts.cname),
                           Fails(faults, "update", opts.cname)))

\* opts: namespace, id, cname, service, routerOpts
ensureCNameBackend(st, opts, ord, faults) ==
  EnsureCNameAfterGet(
    st, <<opts.namespace, ingressCName(opts.id, opts.cname)>>,
    StoreGet(st, <<opts.namespace, ingressCName(opts.id, opts.cname)>>,
             Fails(faults, "get", opts.cname)),
    opts, ord, faults)

\* a delete whose NotFound is no error (lines 563-567)
IgnoreNotFound(step) ==
  [step EXCEPT !.err = IF IsNotFound(@) THEN NoErr ELSE @]

removeCNameBackend(st, opts, faults) ==
  IgnoreNotFound(
    Step("delete", <<opts.namespace, ingressCName(opts.id, opts.cname)>>, opts.id,
         StoreDelete(st, <<opts.namespace, ingressCName(opts.id, opts.cname)>>,
                     Fails(faults, "delete", opts.cname))))

\* the step of an alias in the loops of Ensure, its error wrapped
CNameStep(acc, step, message, cname) ==
  [err |-> IF step.err # NoErr THEN Wrapf(step.err, message, cname) ELSE NoErr,
   st |-> step.st, calls |-> acc.calls \o step.calls]

\* the loop of lines 387-400: it stops at the first alias that fails
RECURSIVE EnsureCNames(_, _, _, _, _)
EnsureCNames(cnames, acc, opts, ord, faults) ==
  IF Len(cnames) = 0 \/ acc.err # NoErr THEN acc
  ELSE EnsureCNames(
         Tail(cnames),
         CNameStep(acc,
                   ensureCNameBackend(acc.st, [opts EXCEPT !.cname = cnames[1]],
                                      ord, faults),
                   "could not ensure CName", cnames[1]),
         opts, ord, faults)

\* the loop of lines 406-419
RECURSIVE RemoveCNames(_, _, _, _)
RemoveCNames(cnames, acc, opts, faults) ==
  IF Len(cnames) = 0 \/ acc.err # NoErr THEN acc
  ELSE RemoveCNames(
         Tail(cnames),
         CNameStep(acc,
                   removeCNameBackend(acc.st, [opts EXCEPT !.cname = cnames[1]],
                                      faults),
                   "could not remove CName", cnames[1]),
         opts, faults)

----------------------------------------------------------------------------
(* Second generation: Ensure and Remove *)

\* the host of the primary route object (lines 344-356)
vhost(id, o) ==
  IF o.Domain # "" THEN o.Domain
  ELSE (IF o.DomainPrefix = "" THEN "" ELSE o.DomainPrefix \o ".")
         \o id \o "."
         \o (IF config.DomainSuffix # "" THEN config.DomainSuffix
             ELSE o.DomainSuffix)

\* the aliases recorded on the desired object (lines 377-379)
CNamesAnnotation(ingress, o) ==
  IF Len(o.CNames) > 1
    THEN [ingress EXCEPT !.Annotations =
            MapPut(@, AnnotationsCNames, Join(o.CNames, ","))]
  ELSE ingress

\* the desired primary route object (lines 358-379)
DesiredIngress(id, o, target, service, ord) ==
  CNamesAnnotation(
    fillIngressMeta(
      [Labels |-> (appBaseServiceNamespaceLabel :> target.Namespace)
                  @@ (appBaseServiceNameLabel :> target.Service),
       Annotations |-> <<>>,
       Spec |-> buildIngressSpec(vhost(id, o), o.Route, service),
       OwnerReferences |-> <<service.Name>>,
       ResourceVersion |-> 0],
      o, id, ord),
    o)

\* the aliases recorded on the existing primary route object (lines 381-385)
ExistingCNames(existing) ==
  IF existing = <<>> THEN <<>>
  ELSE Split(AnnGet(existing[1].Annotations, AnnotationsCNames), ",")

\* the removals of lines 385 and 402-404, with the flag never looked at
CNamesToRemove_NoPreserve(o, existing) ==
  diffCNames(ExistingCNames(existing), o.CNames).toRemove

\* the aliases whose siblings the call removes (lines 385 and 402-404)
CNamesToRemove(o, existing) ==
  IF o.PreserveOldCNames THEN <<>>
  ELSE diffCNames(ExistingCNames(existing), o.CNames).toRemove

\* the list of the application's services by getWebService
ListEntry(id, ns, lfail) ==
  Entry("list", <<ns, "services">>, id,
        [err |-> IF lfail THEN StoreErr("Failed") ELSE NoErr])

\* the end of the alias loops and what follows them (lines 420-441): the
\* primary route object is created or updated unless an alias failed
EnsurePrimary(d, id, o, ord, faults, ns, g, target, service) ==
  IF d.err # NoErr THEN d
  ELSE Then(d, CreateOrUpdate(d.st, <<ns, ingressName(id)>>, g,
                              DesiredIngress(id, o, target, service, ord),
                              id,
                              Fails(faults, "create", id),
                              Fails(faults, "update", id)))

\* the primary route object written before the siblings
EnsureAfterGet_PrimaryFirst(st, id, o, ord, faults, ns, g, target, service, calls) ==
  RemoveCNames(CNamesToRemove(o, g.obj),
               EnsureCNames(o.CNames,
                            EnsurePrimary([err |-> NoErr, st |-> st, calls |-> calls],
                                          id, o, ord, faults, ns, g, target, service),
                            [namespace |-> ns, id |-> id, cname |-> "",
                             service |-> service, routerOpts |-> o],
                            ord, faults),
               [namespace |-> ns, id |-> id, cname |-> "",
                service |-> service, routerOpts |-> o],
               faults)

\* Ensure from line 358 on, on the store st: the siblings (lines 387-419),
\* then the primary route object; g is what the read of line 325 gave
EnsureAfterGet(st, id, o, ord, faults, ns, g, target, service, calls) ==
  EnsurePrimary(
    RemoveCNames(CNamesToRemove(o, g.obj),
                 EnsureCNames(o.CNames,
                              [err |-> NoErr, st |-> st, calls |-> calls],
                              [namespace |-> ns, id |-> id, cname |-> "",
                               service |-> service, routerOpts |-> o],
                              ord, faults),
                 [namespace |-> ns, id |-> id, cname |-> "",
                  service |-> service, routerOpts |-> o],
                 faults),
    id, o, ord, faults, ns, g, target, service)

EnsureObjects(id, o, ord, faults, ns, g, target, service, calls) ==
  \E p \in {EnsureAfterGet(ingresses, id, o, ord, faults, ns, g, target,
                            service, calls)} :
    Finish(Call("Ensure", id, "", o, p.err, p.calls, service.Name), p.st)

\* the siblings to remove deleted before the backend is resolved
Ensure_RemoveBeforeResolve(id, o, ord, faults) ==
  \E n \in {getAppNamespace(id, faults)} :
    \E g \in {get(id, faults)} :
      \E w \in {getWebService(id, n.ns)} :
        \E l \in {ListEntry(id, n.ns, FALSE)} :
          IF n.err # NoErr
            THEN Finish(Call("Ensure", id, "", o, n.err, <<>>, ""), ingresses)
          ELSE IF g.err # NoErr /\ ~IsNotFound(g.err)
            THEN Finish(Call("Ensure", id, "", o, g.err, g.calls, ""), ingresses)
          ELSE IF w.err # NoErr
            THEN \E r \in {RemoveCNames(CNamesToRemove(o, g.obj),
                                         [err |-> NoErr, st |-> ingresses,
                                          calls |-> g.calls \o <<l>>],
                                         [namespace |-> n.ns, id |-> id,
                                          cname |-> "", service |-> <<>>,
                                          routerOpts |-> o],
                                         faults)} :
                   Finish(Call("Ensure", id, "", o, w.err, r.calls, ""), r.st)
          ELSE EnsureObjects(id, o, ord, faults, n.ns, g,
                             [Service |-> id, Namespace |-> n.ns],
                             w.service[1], g.calls \o <<l>>)

Ensure(id, o, ord, faults) ==
  \E n \in {getAppNamespace(id, faults)} :
    \E g \in {get(id, faults)} :
      \E t \in {getDefaultBackendTarget(id, n.ns, faults)} :
        \E w \in {getWebService(id, n.ns)} :
          \E l \in {ListEntry(id, n.ns, Fails(faults, "list", id))} :
            IF n.err # NoErr
              THEN Finish(Call("Ensure", id, "", o, n.err, <<>>, ""), ingresses)
            ELSE IF g.err # NoErr /\ ~IsNotFound(g.err)
              THEN Finish(Call("Ensure", id, "", o, g.err, g.calls, ""), ingresses)
            ELSE IF t.err # NoErr
              THEN Finish(Call("Ensure", id, "", o, t.err, g.calls, ""), ingresses)
            ELSE IF ~l.applied
              THEN Finish(Call("Ensure", id, "", o, StoreErr("Failed"),
                               g.calls \o <<l>>, ""), ingresses)
            ELSE IF w.err # NoErr
              THEN Finish(Call("Ensure", id, "", o, w.err, g.calls \o <<l>>, ""),
                          ingresses)
            ELSE IF w.service[1].Ports = <<>>
              THEN Finish(Call("Ensure", id, "", o, Panic, g.calls \o <<l>>,
                               w.service[1].Name), ingresses)
            ELSE EnsureObjects(id, o, ord, faults, n.ns, g, t.target[1],
                               w.service[1], g.calls \o <<l>>)

\* whether an owner reference of the object names the owner of that kind
\* and name; those of route objects all name services (lines 366-372, 510-516)
OwnedBy(obj, kind, name) ==
  /\ kind = "Service"
  /\ \E i \in DOMAIN obj.OwnerReferences : obj.OwnerReferences[i] = name

\* the objects whose owner is the route object of that key
Dependents(st, key) ==
  {k \in DOMAIN st : k # key /\ k[1] = key[1] /\ OwnedBy(st[k], "Ingress", key[2])}

\* Delete with DeletePropagationForeground (lines 580-581): the object
\* leaves the store with the objects it owns
StoreDeleteForeground(st, key, fail) ==
  IF StoreDelete(st, key, fail).err # NoErr THEN StoreDelete(st, key, fail)
  ELSE [err |-> NoErr,
        st |-> [k \in (DOMAIN st \ {key}) \ Dependents(st, key) |-> st[k]]]

\* Remove of the second generation (lines 571-586)
RemoveCtx(id, faults) ==
  LET n == getAppNamespace(id, faults)
      key == <<n.ns, ingressName(id)>>
      d == StoreDeleteForeground(ingresses, key, Fails(faults, "delete", id))
      done(err, calls, st) ==
        Finish(Call("RemoveCtx", id, "", NoOpts, err, calls, ""), st)
  IN IF n.err # NoErr THEN done(n.err, <<>>, ingresses)
     ELSE done(IF IsNotFound(d.err) THEN NoErr ELSE d.err,
               <<Entry("delete", key, id, d)>>, d.st)

----------------------------------------------------------------------------
(* Certificates: AddCertificate, GetCertificate, RemoveCertificate *)

domainLabel == "tsuru.io/domain-name"

\* a string as the bytes of a secret's Data, and fmt.Sprintf("%s", bytes)
\* back; the entry of an absent key is the nil byte slice
Bytes(str) == <<"bytes", str>>
NilBytes == <<"bytes", "">>
SprintfS(bytes) == bytes[2]
DataGet(data, key) == IF key \in DOMAIN data THEN data[key] ELSE NilBytes

\* a secret as the store keeps it: the entries of the write-only StringData
\* are moved into Data as bytes
SecretStored(secret) ==
  [secret EXCEPT
     !.Data = [k \in DOMAIN secret.Data \cup DOMAIN secret.StringData |->
                 IF k \in DOMAIN secret.StringData
                   THEN Bytes(secret.StringData[k]) ELSE secret.Data[k]],
     !.StringData = <<>>]

\* the secret with the certificate under tls.key and the key under tls.crt
tlsSecret_Crossed(id, certCname, cert) ==
  [Labels |-> (appLabel :> id) @@ (domainLabel :> certCname),
   Annotations |-> <<>>,
   Type |-> "kubernetes.io/tls",
   StringData |-> ("tls.key" :> cert.Certificate) @@ ("tls.crt" :> cert.Key),
   Data |-> <<>>,
   ResourceVersion |-> 0]

\* the secret of lines 688-703
tlsSecret(id, certCname, cert) ==
  [Labels |-> (appLabel :> id) @@ (domainLabel :> certCname),
   Annotations |-> <<>>,
   Type |-> "kubernetes.io/tls",
   StringData |-> ("tls.key" :> cert.Key) @@ ("tls.crt" :> cert.Certificate),
   Data |-> <<>>,
   ResourceVersion |-> 0]

\* lines 709-715: the TLS entry of the host is appended
AppendTLS(ingress, certCname, name) ==
  [ingress EXCEPT !.Spec.TLS =
     Append(@, [Hosts |-> <<certCname>>, SecretName |-> name])]

\* the TLS entry is appended and the route object written whatever the
\* creation of the secret gave
AddCertificateAfterGet_IgnoreCreate(st, sec, id, certCname, cert, faults, ns, g) ==
  LET add(c) ==
        LET upd(u) ==
              [err |-> u.err, st |-> u.st, sec |-> c.st,
               calls |-> <<SecretEntry("create", <<ns, secretName(id, certCname)>>, id, c),
                           Entry("update", <<ns, ingressName(id)>>, id, u)>>]
        IN upd(StoreUpdate(st, <<ns, ingressName(id)>>,
                           AppendTLS(g.obj[1], certCname, secretName(id, certCname)),
                           Fails(faults, "update", id)))
  IN add(StoreCreate(sec, <<ns, secretName(id, certCname)>>,
                     SecretStored(tlsSecret(id, certCname, cert)),
                     Fails(faults, "secret.create", id)))

\* AddCertificate after its read of the route object (lines 688-717), on
\* the route objects st and the secrets sec; g is what the read gave
AddCertificateAfterGet(st, sec, id, certCname, cert, faults, ns, g) ==
  LET add(c) ==
        IF c.err # NoErr
          THEN [err |-> c.err, st |-> st, sec |-> c.st,
                calls |-> <<SecretEntry("create", <<ns, secretName(id, certCname)>>, id, c)>>]
        ELSE LET upd(u) ==
                   [err |-> u.err, st |-> u.st, sec |-> c.st,
                    calls |-> <<SecretEntry("create", <<ns, secretName(id, certCname)>>, id, c),
                                Entry("update", <<ns, ingressName(id)>>, id, u)>>]
             IN upd(StoreUpdate(st, <<ns, ingressName(id)>>,
                                AppendTLS(g.obj[1], certCname, secretName(id, certCname)),
                                Fails(faults, "update", id)))
  IN add(StoreCreate(sec, <<ns, secretName(id, certCname)>>,
                     SecretStored(tlsSecret(id, certCname, cert)),
                     Fails(faults, "secret.create", id)))

\* the secret created before the route object is read
AddCertificate_SecretFirst(id, certCname, cert, faults) ==
  LET done(err, calls, st, sec) ==
        FinishAll(CertCall("AddCertificate", id, certCname, cert, err, calls),
                  st, sec, NoRet)
  IN \E n \in {getAppNamespace(id, faults)} :
       IF n.err # NoErr THEN done(n.err, <<>>, ingresses, secrets)
       ELSE \E c \in {StoreCreate(secrets, <<n.ns, secretName(id, certCname)>>,
                                  SecretStored(tlsSecret(id, certCname, cert)),
                                  Fails(faults, "secret.create", id))} :
              \E g \in {get(id, faults)} :
                done(IF c.err # NoErr THEN c.err ELSE g.err,
                     <<SecretEntry("create", <<n.ns, secretName(id, certCname)>>, id, c)>>
                       \o g.calls,
                     ingresses, c.st)

AddCertificate(id, certCname, cert, faults) ==
  LET done(err, calls, st, sec) ==
        FinishAll(CertCall("AddCertificate", id, certCname, cert, err, calls),
                  st, sec, NoRet)
  IN \E n \in {getAppNamespace(id, faults)} :
       IF n.err # NoErr THEN done(n.err, <<>>, ingresses, secrets)
       ELSE \E g \in {get(id, faults)} :
              IF g.err # NoErr THEN done(g.err, g.calls, ingresses, secrets)
              ELSE \E r \in {AddCertificateAfterGet(ingresses, secrets, id, certCname,
                                                     cert, faults, n.ns, g)} :
                     done(r.err, g.calls \o r.calls, r.st, r.sec)

\* GetCertificate (lines 721-739)
GetCertificate(id, certCname, faults) ==
  LET done(err, calls, r) ==
        FinishAll(CertCall("GetCertificate", id, certCname, NoCert, err, calls),
                  ingresses, secrets, r)
  IN \E n \in {getAppNamespace(id, faults)} :
       IF n.err # NoErr THEN done(n.err, <<>>, NoRet)
       ELSE \E s \in {StoreGet(secrets, <<n.ns, secretName(id, certCname)>>,
                                Fails(faults, "secret.get", id))} :
              \E c \in {<<SecretEntry("get", <<n.ns, secretName(id, certCname)>>, id, s)>>} :
                IF s.err # NoErr THEN done(s.err, c, NoRet)
                ELSE done(NoErr, c,
                          [NoRet EXCEPT
                             !.Certificate = SprintfS(DataGet(s.obj[1].Data, "tls.crt")),
                             !.Key = SprintfS(DataGet(s.obj[1].Data, "tls.key"))])

\* tls without its entry k: append(tls[:k], tls[k+1:]...)
Splice(tls, k) == SubSeq(tls, 1, k - 1) \o SubSeq(tls, k + 1, Len(tls))

\* the inner loop of lines 760-764 at the entry k, over the hosts read when
\* the loop started: each host equal to certCname splices the entry k out of
\* the list as it then is; slicing past the end of the list panics
RECURSIVE RemoveHosts(_, _, _, _)
RemoveHosts(tls, k, hosts, certCname) ==
  IF Len(hosts) = 0 THEN [panic |-> FALSE, tls |-> tls]
  ELSE IF hosts[1] # certCname THEN RemoveHosts(tls, k, Tail(hosts), certCname)
  ELSE IF k > Len(tls) THEN [panic |-> TRUE, tls |-> tls]
  ELSE RemoveHosts(Splice(tls, k), k, Tail(hosts), certCname)

\* the loop of lines 759-765 from the entry k on: the range runs over the n
\* entries the list had when the loop started, and the entry k is read from
\* the list as it is now; an index past its end panics
RECURSIVE RemoveLoop(_, _, _, _)
RemoveLoop(tls, k, n, certCname) ==
  IF k > n THEN [panic |-> FALSE, tls |-> tls]
  ELSE IF k > Len(tls) THEN [panic |-> TRUE, tls |-> tls]
  ELSE LET next(r) == IF r.panic THEN r ELSE RemoveLoop(r.tls, k + 1, n, certCname)
       IN next(RemoveHosts(tls, k, tls[k].Hosts, certCname))

\* the list without the entries that name certCname, the others in order
WithoutHost(tls, certCname) ==
  SelectSeq(tls, LAMBDA e : \A i \in DOMAIN e.Hosts : e.Hosts[i] # certCname)

\* the secret is deleted first, then the route object is written whatever
\* the deletion gave
UpdateThenDelete_DeleteFirst(st, sec, ikey, obj, skey, id, faults) ==
  LET del(d) ==
        LET upd(u) ==
              [err |-> IF u.err # NoErr THEN u.err ELSE d.err,
               st |-> u.st, sec |-> d.st,
               calls |-> <<SecretEntry("delete", skey, id, d),
                           Entry("update", ikey, id, u)>>]
        IN upd(StoreUpdate(st, ikey, obj, Fails(faults, "update", id)))
  IN del(StoreDelete(sec, skey, Fails(faults, "secret.delete", id)))

\* lines 766-771: the route object is written, then the secret is deleted
UpdateThenDelete(st, sec, ikey, obj, skey, id, faults) ==
  LET upd(u) ==
        IF u.err # NoErr
          THEN [err |-> u.err, st |-> u.st, sec |-> sec,
                calls |-> <<Entry("update", ikey, id, u)>>]
        ELSE LET del(d) ==
                   [err |-> d.err, st |-> u.st, sec |-> d.st,
                    calls |-> <<Entry("update", ikey, id, u),
                                SecretEntry("delete", skey, id, d)>>]
             IN del(StoreDelete(sec, skey, Fails(faults, "secret.delete", id)))
  IN upd(StoreUpdate(st, ikey, obj, Fails(faults, "update", id)))

\* RemoveCertificate after its read of the route object (lines 759-771)
RemoveCertificateAfterGet(st, sec, id, certCname, faults, ns, g) ==
  LET write(l) ==
        IF l.panic THEN [err |-> Panic, st |-> st, sec |-> sec, calls |-> <<>>]
        ELSE UpdateThenDelete(st, sec, <<ns, ingressName(id)>>,
                              [g.obj[1] EXCEPT !.Spec.TLS = l.tls],
                              <<ns, secretName(id, certCname)>>, id, faults)
  IN write(RemoveLoop(g.obj[1].Spec.TLS, 1, Len(g.obj[1].Spec.TLS), certCname))

\* RemoveCertificate (lines 742-772)
RemoveCertificate(id, certCname, faults) ==
  LET done(err, calls, st, sec) ==
        FinishAll(CertCall("RemoveCertificate", id, certCname, NoCert, err, calls),
                  st, sec, NoRet)
  IN \E n \in {getAppNamespace(id, faults)} :
       IF n.err # NoErr THEN done(n.err, <<>>, ingresses, secrets)
       ELSE \E g \in {get(id, faults)} :
              IF g.err # NoErr THEN done(g.err, g.calls, ingresses, secrets)
              ELSE \E r \in {RemoveCertificateAfterGet(ingresses, secrets, id,
                                                        certCname, faults, n.ns, g)} :
                     done(r.err, g.calls \o r.calls, r.st, r.sec)

----------------------------------------------------------------------------
(* GetStatus *)

BackendStatusReady == "ready"
BackendStatusNotReady == "not ready"

\* getStatusForRuntimeObject (not in src/; spec 4.8): the detail read from
\* the events of the object, or the error of the read; probe is what the
\* store answers
getStatusForRuntimeObject(probe) ==
  IF probe = "fails" THEN [err |-> StoreErr("Failed"), detail |-> ""]
  ELSE IF probe = "nothing" THEN [err |-> NoErr, detail |-> ""]
  ELSE [err |-> NoErr, detail |-> probe]

\* GetStatus (lines 603-617); ready is what isIngressReady (lines 884-889)
\* gives on the load-balancer addresses the store reports for the object
GetStatus(id, ready, probe, faults) ==
  LET done(err, calls, status, detail) ==
        FinishAll([Call("GetStatus", id, "", NoOpts, err, calls, "")
                     EXCEPT !.ready = ready, !.probe = probe],
                  ingresses, secrets,
                  [NoRet EXCEPT !.status = status, !.detail = detail])
  IN \E g \in {get(id, faults)} :
       IF g.err # NoErr THEN done(g.err, g.calls, BackendStatusNotReady, "")
       ELSE IF ready THEN done(NoErr, g.calls, BackendStatusReady, "")
       ELSE \E d \in {getStatusForRuntimeObject(probe)} :
              IF d.err # NoErr THEN done(d.err, g.calls, BackendStatusNotReady, "")
              ELSE done(NoErr, g.calls, BackendStatusNotReady, d.detail)

PrimaryKey(app) == <<Namespace, ingressName(app)>>

HasPrimary(st, app) == PrimaryKey(app) \in DOMAIN st

----------------------------------------------------------------------------
(* The specifications *)

Apps == {"app1", "app2", "app3"}

\* the service of an application's web process
WebService(app, ns) ==
  [Name |-> app \o "-web", Namespace |-> ns, App |-> app,
   Process |-> webProcessName, Headless |-> FALSE, Ports |-> <<8890>>]

\* the operator's settings when no flag is given
DefaultConfig ==
  [DomainSuffix |-> "", AnnotationsPrefix |-> <<>>, IngressClass |-> <<>>,
   OptsAsAnnotations |-> <<>>, Labels |-> <<>>, Annotations |-> <<>>]

InitJobs(svcs, recs, cfg, j) ==
  /\ ingresses = <<>>
  /\ secrets = <<>>
  /\ services = svcs
  /\ apprecs = recs
  /\ config = cfg
  /\ last = NoCall
  /\ pre = <<>>
  /\ presecrets = <<>>
  /\ ret = NoRet
  /\ jobs = j
  /\ added = <<>>
  /\ rollbackFailed = FALSE
  /\ nops = 0

\* the state after construction when calls are served one at a time
InitWith(svcs, recs, cfg) == InitJobs(svcs, recs, cfg, <<>>)

\* the options of an Ensure request
EnsureOpts(cnames, preserve, acme) ==
  [NoOpts EXCEPT !.CNames = cnames, !.PreserveOldCNames = preserve,
                 !.Acme = acme, !.DomainSuffix = "cloud.io"]

\* no call fails, or one does
OneFault(points) == {{}} \cup {{f} : f \in points}

(* Spec: three applications, each with its web service, in the default     *)
(* namespace; every operation on the primary route objects.                *)

Init ==
  InitWith(<<WebService("app1", Namespace), WebService("app2", Namespace),
             WebService("app3", Namespace)>>,
           [a \in Apps |-> ""], DefaultConfig)

DoCreate == \E a \in Apps : \E f \in OneFault({<<"create", a>>}) : Create(a, f)

DoUpdate ==
  \E a \in Apps :
    \E f \in OneFault({<<"list", a>>, <<"get", a>>, <<"update", a>>}) : Update(a, f)

DoSwap ==
  \E a \in Apps, b \in Apps :
    \E f \in OneFault({<<"get", a>>, <<"get", b>>, <<"update", a>>, <<"update", b>>})
              \cup {{<<"update", b>>, <<"rollback", a>>}} :
      Swap(a, b, f)

DoRemove ==
  \E a \in Apps : \E f \in OneFault({<<"get", a>>, <<"delete", a>>}) : Remove(a, f)

DoRemoveCtx ==
  \E a \in Apps : \E f \in OneFault({<<"lookup", a>>, <<"delete", a>>}) : RemoveCtx(a, f)

DoEnsure ==
  \E a \in Apps :
    \E f \in OneFault({<<"lookup", a>>, <<"get", a>>, <<"create", a>>, <<"update", a>>}) :
      Ensure(a, EnsureOpts(<<>>, FALSE, FALSE), <<>>, f)

Next ==
  /\ nops < MaxOps
  /\ \/ DoCreate
     \/ DoUpdate
     \/ DoSwap
     \/ DoRemove
     \/ DoRemoveCtx
     \/ DoEnsure

Spec == Init /\ [][Next]_vars

(* SpecSwap: the same applications under the operations of the first       *)
(* generation alone.                                                       *)

NextSwap ==
  /\ nops < MaxSwapOps
  /\ \/ DoCreate
     \/ DoUpdate
     \/ DoSwap
     \/ DoRemove

SpecSwap == Init /\ [][NextSwap]_vars

(* SpecEnsure: one application and its aliases.  The primary route object  *)
(* is written by Ensure or, with a single-backend spec, by Create.         *)

EnsureApp == "app1"

Hosts == {"a.io", "b.io"}

\* the alias lists of a request: no host twice
AliasLists ==
  {<<>>} \cup {<<h>> : h \in Hosts}
         \cup {<<h1, h2>> : <<h1, h2>> \in {p \in Hosts \X Hosts : p[1] # p[2]}}

InitEnsure ==
  InitWith(<<WebService(EnsureApp, Namespace)>>, [a \in Apps |-> ""], DefaultConfig)

EnsureCreate == Create(EnsureApp, {})

EnsureAliases ==
  \E cnames \in AliasLists, preserve \in BOOLEAN, acme \in BOOLEAN :
    \E f \in OneFault({<<"get", EnsureApp>>, <<"update", EnsureApp>>}
                      \cup {<<"create", h>> : h \in Hosts}
                      \cup {<<"delete", h>> : h \in Hosts}) :
      Ensure(EnsureApp, EnsureOpts(cnames, preserve, acme), <<>>, f)

EnsureRemove == RemoveCtx(EnsureApp, {})

NextEnsure ==
  /\ nops < MaxEnsureOps
  /\ \/ EnsureCreate
     \/ EnsureAliases
     \/ EnsureRemove

SpecEnsure == InitEnsure /\ [][NextEnsure]_vars

(* SpecOrder: the same calls, two of them: an Ensure on the store that a   *)
(* Create, an Ensure or a Remove left.                                     *)

MaxOrderOps == 2

NextOrder ==
  /\ nops < MaxOrderOps
  /\ \/ EnsureCreate
     \/ EnsureAliases
     \/ EnsureRemove

SpecOrder == InitEnsure /\ [][NextOrder]_vars

(* SpecCert: one application, its primary route object written by Ensure,   *)
(* and the certificate operations on the hosts of the model: two aliases   *)
(* and the primary host. GetStatus reads the primary route object.         *)
MaxCertOps == 4

CertHosts == {"a.io", "b.io", vhost(EnsureApp, EnsureOpts(<<>>, FALSE, FALSE))}

CertData == {[Certificate |-> "crt1", Key |-> "key1"],
             [Certificate |-> "crt2", Key |-> "key2"]}

CertEnsure ==
  \E acme \in BOOLEAN : Ensure(EnsureApp, EnsureOpts(<<>>, FALSE, acme), <<>>, {})

CertAdd ==
  \E h \in CertHosts, c \in CertData :
    \E f \in OneFault({<<"get", EnsureApp>>, <<"secret.create", EnsureApp>>,
                        <<"update", EnsureApp>>}) :
      AddCertificate(EnsureApp, h, c, f)

CertGet ==
  \E h \in CertHosts :
    \E f \in OneFault({<<"secret.get", EnsureApp>>}) :
      GetCertificate(EnsureApp, h, f)

CertRemove ==
  \E h \in CertHosts :
    \E f \in OneFault({<<"get", EnsureApp>>, <<"update", EnsureApp>>,
                        <<"secret.delete", EnsureApp>>}) :
      RemoveCertificate(EnsureApp, h, f)

CertRemoveRoute == RemoveCtx(EnsureApp, {})

CertStatus ==
  \E ready \in BOOLEAN, probe \in {"fails", "nothing", "events"} :
    \E f \in OneFault({<<"get", EnsureApp>>}) :
      GetStatus(EnsureApp, ready, probe, f)

NextCert ==
  /\ nops < MaxCertOps
  /\ \/ CertEnsure
     \/ CertAdd
     \/ CertGet
     \/ CertRemove
     \/ CertRemoveRoute
     \/ CertStatus

SpecCert == InitEnsure /\ [][NextCert]_vars

(* SpecShared: two applications in the default namespace, each with its    *)
(* web service, that may request the same alias and the same certificate   *)
(* host.                                                                   *)
MaxSharedOps == 3

SharedApps == {"app1", "app2"}

SharedHost == "a.io"

InitShared ==
  InitWith(<<WebService("app1", Namespace), WebService("app2", Namespace)>>,
           [a \in Apps |-> ""], DefaultConfig)

SharedEnsure ==
  \E a \in SharedApps, cnames \in {<<>>, <<SharedHost>>} :
    Ensure(a, EnsureOpts(cnames, FALSE, FALSE), <<>>, {})

SharedRemove == \E a \in SharedApps : RemoveCtx(a, {})

SharedAdd ==
  \E a \in SharedApps, c \in CertData : AddCertificate(a, SharedHost, c, {})

SharedRemoveCert == \E a \in SharedApps : RemoveCertificate(a, SharedHost, {})

NextShared ==
  /\ nops < MaxSharedOps
  /\ \/ SharedEnsure
     \/ SharedRemove
     \/ SharedAdd
     \/ SharedRemoveCert

SpecShared == InitShared /\ [][NextShared]_vars

(* SpecRace: two workers serve calls on app1 and app2 concurrently. A call  *)
(* is two steps: its read of the primary route object (of both, for Swap), *)
(* and the rest of it, from the first store call after the read to its     *)
(* return, on the store as it then is. Between the two steps of a worker   *)
(* the other worker may take any of its own.                               *)
MaxRaceOps == 4

Workers == {1, 2}

RaceApps == {"app1", "app2"}

NoRead == [err |-> NoErr, obj |-> <<>>, calls |-> <<>>]

NoJob ==
  [op |-> "", app |-> "", dst |-> "", host |-> "", cert |-> NoCert,
   opts |-> NoOpts, g |-> NoRead, g2 |-> NoRead]

InitRace ==
  InitJobs(<<WebService("app1", Namespace), WebService("app2", Namespace)>>,
           [a \in Apps |-> ""], DefaultConfig, [w \in Workers |-> NoJob])

\* the number of calls in progress
InProgress == Cardinality({w \in Workers : jobs[w] # NoJob})

Idle(w) == jobs[w] = NoJob

\* the read of a call of worker w on an existing primary route object
RaceRead(w, op, app, dst, host, cert, opts) ==
  /\ nops + InProgress < MaxRaceOps
  /\ Idle(w)
  /\ HasPrimary(ingresses, app)
  /\ jobs' = [jobs EXCEPT ![w] =
                [op |-> op, app |-> app, dst |-> dst, host |-> host,
                 cert |-> cert, opts |-> opts,
                 g |-> get(app, {}),
                 g2 |-> IF op = "Swap" THEN get(dst, {}) ELSE NoRead]]
  /\ UNCHANGED <<ingresses, secrets, services, apprecs, config, last, pre,
                 presecrets, ret, added, rollbackFailed, nops>>

RaceCreate ==
  /\ nops + InProgress < MaxRaceOps
  /\ \E a \in RaceApps : ~HasPrimary(ingresses, a) /\ Create(a, {})

RaceReadEnsure ==
  \E w \in Workers, a \in RaceApps, acme \in BOOLEAN :
    RaceRead(w, "Ensure", a, "", "", NoCert, EnsureOpts(<<>>, FALSE, acme))

RaceReadAdd ==
  \E w \in Workers, a \in RaceApps, c \in CertData :
    RaceRead(w, "AddCertificate", a, "", SharedHost, c, NoOpts)

RaceReadRemove ==
  \E w \in Workers, a \in RaceApps :
    RaceRead(w, "RemoveCertificate", a, "", SharedHost, NoCert, NoOpts)

RaceReadSwap ==
  \E w \in Workers, a \in RaceApps, b \in RaceApps :
    /\ a # b
    /\ HasPrimary(ingresses, b)
    /\ RaceRead(w, "Swap", a, b, "", NoCert, NoOpts)

\* the rest of the Ensure of worker w (lines 331-441)
RaceWriteEnsure ==
  \E w \in Workers :
    /\ jobs[w].op = "Ensure"
    /\ \E j \in {jobs[w]} :
         \E n \in {getAppNamespace(j.app, {})} :
           \E t \in {getDefaultBackendTarget(j.app, n.ns, {})} :
             \E s \in {getWebService(j.app, n.ns)} :
               \E r \in {EnsureAfterGet(ingresses, j.app, j.opts, <<>>, {}, n.ns,
                                        j.g, t.target[1], s.service[1],
                                        j.g.calls \o <<ListEntry(j.app, n.ns, FALSE)>>)} :
                 FinishJobs(Call("Ensure", j.app, "", j.opts, r.err, r.calls,
                                 s.service[1].Name),
                            r.st, secrets, NoRet, [jobs EXCEPT ![w] = NoJob])

\* the rest of the AddCertificate of worker w (lines 688-717)
RaceWriteAdd ==
  \E w \in Workers :
    /\ jobs[w].op = "AddCertificate"
    /\ \E j \in {jobs[w]} :
         \E r \in {AddCertificateAfterGet(ingresses, secrets, j.app, j.host, j.cert,
                                          {}, getAppNamespace(j.app, {}).ns, j.g)} :
           FinishJobs(CertCall("AddCertificate", j.app, j.host, j.cert, r.err,
                               j.g.calls \o r.calls),
                      r.st, r.sec, NoRet, [jobs EXCEPT ![w] = NoJob])

\* the rest of the RemoveCertificate of worker w (lines 759-771)
RaceWriteRemove ==
  \E w \in Workers :
    /\ jobs[w].op = "RemoveCertificate"
    /\ \E j \in {jobs[w]} :
         \E r \in {RemoveCertificateAfterGet(ingresses, secrets, j.app, j.host, {},
                                             getAppNamespace(j.app, {}).ns, j.g)} :
           FinishJobs(CertCall("RemoveCertificate", j.app, j.host, NoCert, r.err,
                               j.g.calls \o r.calls),
                      r.st, r.sec, NoRet, [jobs EXCEPT ![w] = NoJob])

\* the rest of the Swap of worker w (lines 133-151)
RaceWriteSwap ==
  \E w \in Workers :
    /\ jobs[w].op = "Swap"
    /\ \E j \in {jobs[w]} :
         \E r \in {SwapAfterGet(ingresses, j.app, j.dst, j.g, j.g2, {})} :
           FinishJobs(Call("Swap", j.app, j.dst, NoOpts, r.err,
                           j.g.calls \o j.g2.calls \o r.calls, ""),
                      r.st, secrets, NoRet, [jobs EXCEPT ![w] = NoJob])

NextRace ==
  \/ RaceCreate
  \/ RaceReadEnsure
  \/ RaceReadAdd
  \/ RaceReadRemove
  \/ RaceReadSwap
  \/ RaceWriteEnsure
  \/ RaceWriteAdd
  \/ RaceWriteRemove
  \/ RaceWriteSwap

SpecRace == InitRace /\ [][NextRace]_vars

(* SpecBackend: one application whose services are replaced between calls  *)
(* (a deployment): two services of which one is of the web process, or a   *)
(* single service of another name and port.                                *)
MaxBackendOps == 3

Deployments ==
  {<<[Name |-> "app1-worker", Namespace |-> Namespace, App |-> "app1",
      Process |-> "worker", Headless |-> FALSE, Ports |-> <<8889>>],
     WebService("app1", Namespace)>>,
   <<[Name |-> "app1-api", Namespace |-> Namespace, App |-> "app1",
      Process |-> "", Headless |-> FALSE, Ports |-> <<8891, 8892>>]>>}

InitBackend ==
  \E svcs \in Deployments : InitWith(svcs, [a \in Apps |-> ""], DefaultConfig)

BackendEnsure ==
  \E cnames \in {<<>>, <<"a.io">>, <<"b.io">>}, preserve \in BOOLEAN :
    Ensure("app1", EnsureOpts(cnames, preserve, FALSE), <<>>, {})

\* the services of the application are replaced in the store
BackendRedeploy ==
  /\ \E svcs \in Deployments \ {services} : services' = svcs
  /\ last' = [NoCall EXCEPT !.op = "Redeploy", !.app = "app1"]
  /\ pre' = ingresses
  /\ presecrets' = secrets
  /\ nops' = nops + 1
  /\ UNCHANGED <<ingresses, secrets, apprecs, config, ret, jobs, added,
                 rollbackFailed>>

NextBackend ==
  /\ nops < MaxBackendOps
  /\ \/ BackendEnsure
     \/ BackendRedeploy

SpecBackend == InitBackend /\ [][NextBackend]_vars

(* SpecOpts: one application under every operator configuration; Ensure    *)
(* with per-request options, with and without ACME and an alias.           *)

MaxOptsOps == 3

\* an annotation an operator fixes and a request sets or deletes
CustomKey == <<"custom.io", "/", "rate">>

\* the option name that deletes it
CustomKeyDeleted == CustomKey \o <<"-">>

\* the operator's settings (the fields of IngressService)
Configs ==
  {[DefaultConfig EXCEPT !.Labels = labels, !.Annotations = annotations,
                         !.IngressClass = class] :
     labels \in {<<>>, (appLabel :> "other")},
     annotations \in {<<>>, (CustomKey :> <<"fixed">>)},
     class \in {<<>>, <<"nginx">>}}

\* the free-form options of a request
OptionMaps == {<<>>, (CustomKey :> <<"10">>), (CustomKeyDeleted :> <<>>)}

\* the orders in which a range over a map may visit its keys
Orders(m) ==
  {ord \in [1..Cardinality(DOMAIN m) -> DOMAIN m] :
     \A i, j \in DOMAIN ord : i # j => ord[i] # ord[j]}

InitOpts ==
  \E cfg \in Configs :
    InitWith(<<WebService(EnsureApp, Namespace)>>, [a \in Apps |-> ""], cfg)

\* the aliases and the explicit domain of a request
Routes ==
  {[CNames |-> <<>>, Domain |-> ""], [CNames |-> <<"a.io">>, Domain |-> ""],
   [CNames |-> <<>>, Domain |-> "custom.io"]}

OptsEnsure ==
  \E route \in Routes, acme \in BOOLEAN, additional \in OptionMaps :
    \E o \in {[EnsureOpts(route.CNames, FALSE, acme) EXCEPT
                  !.AdditionalOpts = additional, !.Domain = route.Domain]} :
      \E ord \in Orders(AdditionalOpts(o)) :
        Ensure(EnsureApp, o, ord, {})

NextOpts == nops < MaxOptsOps /\ OptsEnsure

SpecOpts == InitOpts /\ [][NextOpts]_vars

(* SpecNames: the names of the objects of applications and aliases of any  *)
(* length, each computed when a call needs it.                             *)

MaxNameOps == 2

\* the length of the longest application name and alias
MaxNameLen == 300

\* a string of n characters
RECURSIVE Repeat(_, _)
Repeat(c, n) ==
  IF n = 0 THEN ""
  ELSE IF n % 2 = 0 THEN Repeat(c \o c, n \div 2)
  ELSE c \o Repeat(c, n - 1)

\* application names and aliases, short and long
NamedApps == {"app1", Repeat("a", 240), Repeat("a", MaxNameLen)}

NamedHosts == {"a.io", Repeat("b", 230), Repeat("b", MaxNameLen)}

InitNames == InitWith(<<>>, [a \in Apps |-> ""], DefaultConfig)

\* a name computed: the call and its inputs in last, the name in ret, and
\* both in the list of the names computed so far
Named(op, app, host, name) ==
  /\ last' = [NoCall EXCEPT !.op = op, !.app = app, !.host = host]
  /\ ret' = [name |-> name]
  /\ added' = Append(added, [op |-> op, app |-> app, host |-> host, name |-> name])
  /\ nops' = nops + 1
  /\ UNCHANGED <<ingresses, secrets, services, apprecs, config, pre,
                 presecrets, jobs, rollbackFailed>>

NameIngress ==
  \E app \in NamedApps : Named("ingressName", app, "", ingressName(app))

NameIngressCName ==
  \E app \in NamedApps, host \in NamedHosts :
    Named("ingressCName", app, host, ingressCName(app, host))

NameSecret ==
  \E app \in NamedApps, host \in NamedHosts :
    Named("secretName", app, host, secretName(app, host))

NextNames ==
  /\ nops < MaxNameOps
  /\ (\/ NameIngress \/ NameIngressCName \/ NameSecret)

SpecNames == InitNames /\ [][NextNames]_vars

(* SpecChanges: a stored route object of any labels, annotations and spec, *)
(* compared with the desired objects of later calls.                       *)

MaxChangeOps == 2

\* an annotation and a label that an object may carry
ComparedAnnotation == <<"custom.io", "/", "rate">>

ComparedLabel == "custom.io/team"

\* no annotation, one with the empty string, one with a value
AnnotationMaps ==
  {<<>>} \cup {(ComparedAnnotation :> v) : v \in {<<>>, <<"10">>, <<"20">>}}

LabelMaps == {<<>>} \cup {(ComparedLabel :> v) : v \in {"", "blue"}}

\* route objects of the application, of one host or another
ComparedObjects ==
  {[Labels |-> labels, Annotations |-> annotations,
    Spec |-> buildIngressSpec(host, "", WebService(EnsureApp, Namespace)),
    OwnerReferences |-> <<"app1-web">>, ResourceVersion |-> 1] :
     labels \in LabelMaps, annotations \in AnnotationMaps,
     host \in {"app1.cloud.io", "a.io"}}

InitChanges ==
  InitWith(<<WebService(EnsureApp, Namespace)>>, [a \in Apps |-> ""], DefaultConfig)

\* the store comes to hold a route object of the application
ChangesStore ==
  /\ ~HasPrimary(ingresses, EnsureApp)
  /\ \E existing \in ComparedObjects :
       ingresses' = StoreCreate(ingresses, PrimaryKey(EnsureApp), existing, FALSE).st
  /\ last' = [NoCall EXCEPT !.op = "create", !.app = EnsureApp]
  /\ nops' = nops + 1
  /\ UNCHANGED <<secrets, services, apprecs, config, pre, presecrets, ret,
                 jobs, added, rollbackFailed>>

\* the comparison of lines 428 and 540: the stored object and the desired one
HasChanges ==
  /\ HasPrimary(ingresses, EnsureApp)
  /\ \E desired \in ComparedObjects :
       ret' = [desired |-> desired,
               hasChanges |-> ingressHasChanges(ingresses[PrimaryKey(EnsureApp)],
                                                desired)]
  /\ last' = [NoCall EXCEPT !.op = "ingressHasChanges", !.app = EnsureApp]
  /\ nops' = nops + 1
  /\ UNCHANGED <<ingresses, secrets, services, apprecs, config, pre,
                 presecrets, jobs, added, rollbackFailed>>

NextChanges ==
  /\ nops < MaxChangeOps
  /\ (\/ ChangesStore \/ HasChanges)

SpecChanges == InitChanges /\ [][NextChanges]_vars

(* SpecHost: one application, with and without an operator's domain        *)
(* suffix; Ensure with every combination of explicit domain, domain prefix *)
(* and per-request suffix.                                                 *)

MaxHostOps == 3

InitHost ==
  \E suffix \in {"", "operator.io"} :
    InitWith(<<WebService(EnsureApp, Namespace)>>, [a \in Apps |-> ""],
             [DefaultConfig EXCEPT !.DomainSuffix = suffix])

HostEnsure ==
  \E domain \in {"", "custom.io"}, prefix \in {"", "blue"},
     suffix \in {"", "cloud.io"} :
    Ensure(EnsureApp,
           [NoOpts EXCEPT !.Domain = domain, !.DomainPrefix = prefix,
                          !.DomainSuffix = suffix],
           <<>>, {})

NextHost == nops < MaxHostOps /\ HostEnsure

SpecHost == InitHost /\ [][NextHost]_vars

(* SpecFail: one application whose services come and go; Ensure with any   *)
(* of its resolution steps failing.                                        *)

MaxFailOps == 3

\* no service, the web service, two services none of which is web
FailDeployments ==
  {<<>>, <<WebService(EnsureApp, Namespace)>>,
   <<[WebService(EnsureApp, Namespace) EXCEPT !.Name = "app1-worker", !.Process = "worker"],
     [WebService(EnsureApp, Namespace) EXCEPT !.Name = "app1-cron", !.Process = "cron"]>>}

InitFail ==
  \E svcs \in FailDeployments : InitWith(svcs, [a \in Apps |-> ""], DefaultConfig)

FailEnsure ==
  \E cnames \in {<<>>, <<"a.io">>, <<"a.io", "b.io">>} :
    \E f \in OneFault({<<"lookup", EnsureApp>>, <<"get", EnsureApp>>,
                        <<"target", EnsureApp>>, <<"list", EnsureApp>>}) :
      Ensure(EnsureApp, EnsureOpts(cnames, FALSE, FALSE), <<>>, f)

FailRedeploy ==
  /\ \E svcs \in FailDeployments \ {services} : services' = svcs
  /\ last' = [NoCall EXCEPT !.op = "Redeploy", !.app = EnsureApp]
  /\ pre' = ingresses
  /\ presecrets' = secrets
  /\ nops' = nops + 1
  /\ UNCHANGED <<ingresses, secrets, apprecs, config, ret, jobs, added, rollbackFailed>>

NextFail ==
  /\ nops < MaxFailOps
  /\ (\/ FailEnsure \/ FailRedeploy)

SpecFail == InitFail /\ [][NextFail]_vars

(* SpecAPI: the HTTP API in front of the service.  A swap request carries  *)
(* the backend's name in its path and a target either as a form value or   *)
(* as a field of a JSON body; the backends are created by the service.     *)

MaxAPIOps == 3

\* errors.New("invalid target")
ErrInvalidTarget == [kind |-> "invalid target", a |-> "", b |-> ""]

\* a POST to /backend/{name}/swap
SwapRequest(name, encoding, target) ==
  [name |-> name, encoding |-> encoding, target |-> target]

\* r.FormValue(key): the value of the URL query or of a form-encoded body;
\* a body of another content type is not parsed and yields no value
FormValue(r, key) ==
  IF r.encoding = "form" /\ key = "target" THEN r.target ELSE ""

\* the wrapper of every route: the handler's error decides the status
handler(err) == IF err = NoErr THEN 200 ELSE 500

\* the record of a served request: the request, the calls the handler made
\* on the service, the status of the response
Served(r, err, invoked, calls) ==
  [Call("api.swap", r.name, r.target, NoOpts, err, calls, "")
     EXCEPT !.probe = r.encoding, !.host = invoked, !.ready = (handler(err) = 200)]

RouterAPI_swap(r, faults) ==
  \E target \in {FormValue(r, "target")} :
    IF target = ""
      THEN Finish(Served(r, ErrInvalidTarget, <<>>, <<>>), ingresses)
    ELSE
      \E g1 \in {StoreGet(ingresses, <<Namespace, ingressName(r.name)>>,
                          Fails(faults, "get", r.name))} :
        \E g2 \in {StoreGet(ingresses, <<Namespace, ingressName(target)>>,
                            Fails(faults, "get", target))} :
          \E w \in {SwapCall(ingresses, r.name, target, g1, g2, faults)} :
            Finish(Served(r, w.err, <<<<"Swap", r.name, target>>>>, w.calls), w.st)

APISwap ==
  \E name \in Apps, encoding \in {"form", "json"}, target \in Apps \cup {""} :
    \E f \in OneFault({<<"get", name>>, <<"update", name>>}) :
      RouterAPI_swap(SwapRequest(name, encoding, target), f)

NextAPI ==
  /\ nops < MaxAPIOps
  /\ \/ DoCreate
     \/ APISwap

SpecAPI == Init /\ [][NextAPI]_vars

(* SpecResolve: one application whose services are any list of up to      *)
(* MaxServices services, each of the web process, of another process or    *)
(* of none, and headless (without ports, as in TestGetWebService) or not.  *)

ServiceNames == <<"svc1", "svc2", "svc3", "svc4">>

ServiceKinds == {"", webProcessName, "worker"} \X BOOLEAN

\* the i-th service of the application, of the process and kind given
KindService(i, kind) ==
  [Name |-> ServiceNames[i], Namespace |-> Namespace, App |-> EnsureApp,
   Process |-> kind[1], Headless |-> kind[2],
   Ports |-> IF kind[2] THEN <<>> ELSE <<8890 + i>>]

ServiceLists ==
  UNION {{[i \in 1..n |-> KindService(i, kinds[i])] : kinds \in [1..n -> ServiceKinds]}
           : n \in 0..MaxServices}

InitResolve ==
  \E svcs \in ServiceLists : InitWith(svcs, [a \in Apps |-> ""], DefaultConfig)

ResolveCreate == Create(EnsureApp, {})

ResolveUpdate == Update(EnsureApp, {})

ResolveEnsure == Ensure(EnsureApp, EnsureOpts(<<>>, FALSE, FALSE), <<>>, {})

NextResolve ==
  /\ nops < MaxResolveOps
  /\ \/ ResolveCreate
     \/ ResolveUpdate
     \/ ResolveEnsure

SpecResolve == InitResolve /\ [][NextResolve]_vars

(* SpecNamespace: app1 has a registration record naming a namespace of its *)
(* own, app2 has no record; the lookup of the record may fail.             *)

CustomNamespace == "custom-namespace"

NamespaceApps == {"app1", "app2"}

InitNamespace ==
  InitWith(<<WebService("app1", CustomNamespace), WebService("app2", Namespace)>>,
           [a \in Apps |-> IF a = "app1" THEN CustomNamespace ELSE ""],
           DefaultConfig)

NamespaceCreate == \E a \in NamespaceApps : Create(a, {})

NamespaceUpdate == \E a \in NamespaceApps : Update(a, {})

NamespaceSwap == \E a \in NamespaceApps, b \in NamespaceApps : a # b /\ Swap(a, b, {})

NamespaceRemove == \E a \in NamespaceApps : Remove(a, {})

NamespaceRemoveCtx ==
  \E a \in NamespaceApps : \E f \in OneFault({<<"lookup", a>>}) : RemoveCtx(a, f)

NamespaceEnsure ==
  \E a \in NamespaceApps, cnames \in {<<>>, <<"a.io">>} :
    \E f \in OneFault({<<"lookup", a>>}) :
      Ensure(a, EnsureOpts(cnames, FALSE, FALSE), <<>>, f)

NextNamespace ==
  /\ nops < MaxNamespaceOps
  /\ \/ NamespaceCreate
     \/ NamespaceUpdate
     \/ NamespaceSwap
     \/ NamespaceRemove
     \/ NamespaceRemoveCtx
     \/ NamespaceEnsure

SpecNamespace == InitNamespace /\ [][NextNamespace]_vars

----------------------------------------------------------------------------
(* What the claims speak of *)

\* the application named by the swapped-with label of app's primary route
\* object, "" when there is no such object or no such label
SwappedWith(st, app) ==
  IF HasPrimary(st, app) THEN MapGet(st[PrimaryKey(app)].Labels, swapLabel) ELSE ""

\* an object but for its version token
Content(obj) == [obj EXCEPT !.ResourceVersion = 0]

\* in a Swap's log: the two reads, the write of src, the write of dst, the rollback
SrcWrittenDstFailed(call) ==
  /\ call.op = "Swap"
  /\ Len(call.calls) >= 4
  /\ call.calls[3].applied
  /\ ~call.calls[4].applied

\* the call ended with an error the store injected
StoreFailed(call) == call.err.kind \in {"Failed", "LookupFailed"}

\* the aliases of app that have a sibling route object in the store
Siblings(st, app) ==
  {h \in Hosts : <<Namespace, ingressCName(app, h)>> \in DOMAIN st}

\* two Ensure calls of one application, one after the other, both succeeding
EnsureTwice(first, second) ==
  /\ first.op = "Ensure" /\ first.err = NoErr
  /\ second.op = "Ensure" /\ second.err = NoErr
  /\ second.app = first.app

\* the services carrying the application's label, of any namespace
Labelled(app) == SelectSeq(services, LAMBDA s : s.App = app)

NotHeadless(list) == SelectSeq(list, LAMBDA s : ~s.Headless)

WebLabelled(list) == SelectSeq(list, LAMBDA s : s.Process = webProcessName)

\* the call resolved the backend of its application
Resolves(call) == call.op \in {"Update", "Ensure"}

\* the namespace an application's objects belong in
AppNamespace(app) == IF apprecs[app] # "" THEN apprecs[app] ELSE Namespace

----------------------------------------------------------------------------
(* Claims *)

\* C1: as long as no Swap has ended with a failed rollback, the swap relation
\* is symmetric after every call: A's primary route object carries the
\* swapped-with label naming B if and only if B's carries it naming A.
C1_SwapSymmetric ==
  ~rollbackFailed =>
    \A a \in Apps, b \in Apps :
      (SwappedWith(ingresses, a) = b) <=> (SwappedWith(ingresses, b) = a)

\* C2: when a Swap of two distinct applications wrote src and then failed to
\* write dst, at its return the stored src has the backend target and the
\* swap label it had before the Swap, and the stored dst is unchanged.
C2_RollbackRestoresSrc ==
  (SrcWrittenDstFailed(last) /\ last.app # last.dst) =>
    /\ HasPrimary(ingresses, last.app)
    /\ ingresses[PrimaryKey(last.app)].Spec.Backend
         = pre[PrimaryKey(last.app)].Spec.Backend
    /\ SwappedWith(ingresses, last.app) = SwappedWith(pre, last.app)
    /\ ingresses[PrimaryKey(last.dst)] = pre[PrimaryKey(last.dst)]

\* C3: a successful Swap(A,B) of two distinct applications that were not
\* swapped, followed at once by a second successful Swap(A,B), leaves both
\* stored objects as they were before the first Swap (but for their version
\* tokens): the backend targets are back and neither carries a swap label.
C3_SwapTwiceRestores ==
  [][(/\ last.op = "Swap" /\ last.err = NoErr /\ last.app # last.dst
      /\ SwappedWith(pre, last.app) = "" /\ SwappedWith(pre, last.dst) = ""
      /\ last'.op = "Swap" /\ last'.err = NoErr
      /\ last'.app = last.app /\ last'.dst = last.dst)
     => \A x \in {last.app, last.dst} :
          /\ HasPrimary(ingresses', x)
          /\ Content(ingresses'[PrimaryKey(x)]) = Content(pre[PrimaryKey(x)])
          /\ SwappedWith(ingresses', x) = ""]_vars

\* a second Swap(A,B) has just undone a swap of A and B: before it each
\* named the other and held the other's backend, now neither carries a label
C3_Witness ==
  /\ last.op = "Swap" /\ last.err = NoErr /\ last.app # last.dst
  /\ SwappedWith(pre, last.app) = last.dst
  /\ SwappedWith(pre, last.dst) = last.app
  /\ SwappedWith(ingresses, last.app) = ""
  /\ SwappedWith(ingresses, last.dst) = ""
  /\ ingresses[PrimaryKey(last.app)].Spec.Backend
       = pre[PrimaryKey(last.dst)].Spec.Backend
  /\ ingresses[PrimaryKey(last.app)].Spec.Backend
       # ingresses[PrimaryKey(last.dst)].Spec.Backend

\* C4: a Remove (of either generation) of an application whose primary route
\* object carries a swap label naming another application P fails with
\* AppSwapped(app, P) and deletes nothing; a Remove of an application whose
\* primary route object carries no swap label succeeds and deletes it.
\* (Calls that end with an error of the store itself are left aside.)
C4_RemoveGuardedBySwap ==
  (last.op \in {"Remove", "RemoveCtx"} /\ HasPrimary(pre, last.app)
     /\ SwappedWith(pre, last.app) # last.app
     /\ ~StoreFailed(last)) =>
    IF SwappedWith(pre, last.app) # ""
      THEN /\ last.err = ErrAppSwapped(last.app, SwappedWith(pre, last.app))
           /\ ingresses = pre
      ELSE /\ last.err = NoErr
           /\ ~HasPrimary(ingresses, last.app)

\* C5: when an application without siblings is given the aliases S1 by a
\* successful Ensure and then the aliases S2 by a successful Ensure, both
\* without the preserve flag, the aliases with a sibling route object in the
\* store are exactly S2.
C5_AliasesConverge ==
  [][(/\ EnsureTwice(last, last')
      /\ Siblings(pre, last.app) = {}
      /\ ~last.opts.PreserveOldCNames /\ ~last'.opts.PreserveOldCNames)
     => Siblings(ingresses', last.app) = Range(last'.opts.CNames)]_vars

C7_EnsureIdempotent ==
  [][(EnsureTwice(last, last') /\ last'.opts = last.opts)
     => Writes(last') = <<>>]_vars

\* C8: a call that resolves the backend of an application none of whose
\* services is headless fails with NoBackendService(app) when the
\* application has no service, selects the only service when it has one,
\* and with several selects the service of the web process when exactly one
\* is labelled so and fails with NoBackendService(app, "web") when none or
\* several are.
C8_BackendResolution ==
  (Resolves(last) /\ NotHeadless(Labelled(last.app)) = Labelled(last.app)) =>
    LET list == Labelled(last.app)
        web == WebLabelled(list)
    IN IF Len(list) = 0 THEN last.err = ErrNoService(last.app, "")
       ELSE IF Len(list) = 1 THEN last.service = list[1].Name
       ELSE IF Len(web) = 1 THEN last.service = web[1].Name
       ELSE last.err = ErrNoService(last.app, webProcessName)

\* C9: a call that resolves the backend of an application never selects a
\* headless service, fails with NoBackendService(app) when every service of
\* the application is headless, and otherwise ends as its resolution ends
\* on the services that are not headless.
C9_HeadlessNeverCandidate ==
  Resolves(last) =>
    LET list == Labelled(last.app)
        rest == NotHeadless(list)
        sel == UpdateService(rest, last.app)
    IN /\ \A i \in DOMAIN list : list[i].Headless => last.service # list[i].Name
       /\ rest = <<>> => last.err = ErrNoService(last.app, "")
       /\ last.op = "Update" =>
            IF sel.err # NoErr THEN last.err = sel.err
            ELSE last.service = sel.service[1].Name

\* C10: every store call of an operation addresses the namespace of the
\* registration record of the application it is about, or the default
\* namespace when the application has no record, and an operation that
\* ends with the error of a failed lookup has written nothing.
C10_AppNamespace ==
  /\ \A i \in DOMAIN last.calls :
       last.calls[i].key[1] = AppNamespace(last.calls[i].app)
  /\ last.err.kind = "LookupFailed" => Writes(last) = <<>>

\* C18: when Swap(src, dst) of two distinct applications has written src,
\* the write of dst fails and the rollback write of src fails too, Swap ends
\* with one combined error that names the failure of the dst write and the
\* failure of the rollback, has issued no call after the rollback, and
\* leaves src as the exchange wrote it (with the backend of dst, and with
\* the swapped-with label naming dst when neither was swapped before), dst
\* as it was.
C18_RollbackFailureCombined ==
  (/\ SrcWrittenDstFailed(last)
   /\ last.app # last.dst
   /\ Len(last.calls) >= 5 => ~last.calls[5].applied) =>
    /\ Len(last.calls) = 5
    /\ last.err = [kind |-> "failed to rollback swap",
                   a |-> last.calls[4].err, b |-> last.calls[5].err]
    /\ last.err.a # "" /\ last.err.b # ""
    /\ Content(ingresses[PrimaryKey(last.app)])
         = Content(swap(pre[PrimaryKey(last.app)], pre[PrimaryKey(last.dst)]).src)
    /\ (SwappedWith(pre, last.app) = "" /\ SwappedWith(pre, last.dst) = "") =>
         SwappedWith(ingresses, last.app) = last.dst
    /\ ingresses[PrimaryKey(last.dst)] = pre[PrimaryKey(last.dst)]

C18_Witness ==
  /\ last.op = "Swap"
  /\ last.app # last.dst
  /\ last.err.kind = "failed to rollback swap"
  /\ Len(last.calls) = 5
  /\ SwappedWith(pre, last.app) = ""
  /\ SwappedWith(ingresses, last.app) = last.dst

\* the aliases the annotation of the primary route object of app denotes:
\* none when the annotation is absent or empty, else its comma-separated
\* entries in order
AnnotatedCNames(st, app) ==
  IF ~HasPrimary(st, app) THEN <<>>
  ELSE IF AnnGet(st[PrimaryKey(app)].Annotations, AnnotationsCNames) = "" THEN <<>>
  ELSE Split(AnnGet(st[PrimaryKey(app)].Annotations, AnnotationsCNames), ",")

\* C19: after every successful Ensure of an application with the aliases S,
\* whether it created the primary route object, updated it or left it, the
\* alias annotation of the stored primary route object denotes exactly S.
C19_AnnotationDenotesAliases ==
  (last.op = "Ensure" /\ last.err = NoErr) =>
    /\ HasPrimary(ingresses, last.app)
    /\ AnnotatedCNames(ingresses, last.app) = last.opts.CNames

\* the TLS entries of the primary route object of app
TLSOf(st, app) == IF HasPrimary(st, app) THEN st[PrimaryKey(app)].Spec.TLS ELSE <<>>

\* the call read the primary route object of its application
ReadPrimary(call) ==
  /\ Len(call.calls) >= 1
  /\ call.calls[1].verb = "get" /\ call.calls[1].kind = "ingress"
  /\ call.calls[1].applied

\* the call's update of the primary route object, applied by the store
UpdatedPrimary(call) ==
  \E i \in DOMAIN call.calls :
    /\ call.calls[i].verb = "update" /\ call.calls[i].kind = "ingress"
    /\ call.calls[i].key = PrimaryKey(call.app)
    /\ call.calls[i].applied

\* C13: a RemoveCertificate(app, host) that has read the primary route
\* object does not crash, whatever the TLS list it read, and the TLS list it
\* writes is the list it read without the entries that name host, the other
\* entries in their order.
C13_RemoveCertificateFilters ==
  (last.op = "RemoveCertificate" /\ ReadPrimary(last)) =>
    /\ last.err # Panic
    /\ UpdatedPrimary(last) =>
         TLSOf(ingresses, last.app)
           = WithoutHost(TLSOf(pre, last.app), last.host)

\* the key of the secret of (app, host) in the namespace of app
SecretKey(app, host) == <<AppNamespace(app), secretName(app, host)>>

HasSecret(sec, app, host) == SecretKey(app, host) \in DOMAIN sec

\* every store call of the call was applied
AllApplied(call) == \A i \in DOMAIN call.calls : call.calls[i].applied

\* C14: an AddCertificate(app, host) called while the secret of (app, host)
\* exists fails (with AlreadyExists when no store call of it fails) and
\* leaves the secrets and the TLS list of the primary route object as they
\* were; the secret of a host leaves the store in a RemoveCertificate of
\* that host only, and an AddCertificate called when the secret is absent
\* and the primary route object exists succeeds if no store call fails.
C14_AddCertificateRefusesExisting ==
  [][/\ (last'.op = "AddCertificate" /\ HasSecret(secrets, last'.app, last'.host)) =>
          /\ last'.err # NoErr
          /\ (ReadPrimary(last') /\ last'.err # StoreErr("Failed")) =>
               last'.err = StoreErr("AlreadyExists")
          /\ secrets' = secrets
          /\ TLSOf(ingresses', last'.app) = TLSOf(ingresses, last'.app)
     /\ \A h \in CertHosts :
          (HasSecret(secrets, EnsureApp, h) /\ ~HasSecret(secrets', EnsureApp, h)) =>
            (last'.op = "RemoveCertificate" /\ last'.host = h)
     /\ (/\ last'.op = "AddCertificate"
         /\ ~HasSecret(secrets, last'.app, last'.host)
         /\ HasPrimary(ingresses, last'.app)
         /\ AllApplied(last')) =>
          /\ last'.err = NoErr
          /\ HasSecret(secrets', last'.app, last'.host)]_vars

C14_Witness ==
  /\ last.op = "AddCertificate"
  /\ HasSecret(presecrets, last.app, last.host)
  /\ last.err = StoreErr("AlreadyExists")
  /\ \E i \in DOMAIN TLSOf(pre, last.app) :
       TLSOf(pre, last.app)[i].Hosts = <<last.host>>

\* C15: a GetCertificate(app, host) whose read the store answers returns
\* the certificate and key of the last successful AddCertificate(app, host),
\* and no error, when no RemoveCertificate(app, host) was called since; it
\* fails with NotFound when (app, host) has no secret.
C15_GetCertificateReturnsAdded ==
  (last.op = "GetCertificate" /\ last.err # StoreErr("Failed")) =>
    /\ <<last.app, last.host>> \in DOMAIN added =>
         /\ last.err = NoErr
         /\ ret.Certificate = added[<<last.app, last.host>>].Certificate
         /\ ret.Key = added[<<last.app, last.host>>].Key
    /\ ~HasSecret(secrets, last.app, last.host) =>
         /\ last.err = StoreErr("NotFound")
         /\ ret = NoRet

C15_Witness ==
  /\ last.op = "GetCertificate"
  /\ last.err = NoErr
  /\ <<last.app, last.host>> \in DOMAIN added
  /\ ret.Certificate = "crt2" /\ ret.Key = "key2"

\* the TLS list has an entry that names host
Referenced(tls, host) ==
  \E i \in DOMAIN tls : \E j \in DOMAIN tls[i].Hosts : tls[i].Hosts[j] = host

\* C16: a RemoveCertificate(app, host) that has read the primary route
\* object and gone through its TLS list issues the update of the route
\* object first. When the update fails, nothing else is called: the error
\* of the update is returned and the route objects and secrets are as they
\* were. When the update is applied, one deletion of the secret follows and
\* nothing after it; when that deletion fails its error is returned, the
\* secrets are as they were and the route object stays as the update wrote
\* it, without an entry for host.
C16_UpdateBeforeDelete ==
  (last.op = "RemoveCertificate" /\ ReadPrimary(last) /\ last.err # Panic) =>
    /\ Len(last.calls) >= 2
    /\ last.calls[2].verb = "update" /\ last.calls[2].kind = "ingress"
    /\ ~last.calls[2].applied =>
         /\ Len(last.calls) = 2
         /\ last.err.kind = last.calls[2].err
         /\ ingresses = pre
         /\ secrets = presecrets
    /\ last.calls[2].applied =>
         /\ Len(last.calls) = 3
         /\ last.calls[3].verb = "delete" /\ last.calls[3].kind = "secret"
         /\ last.calls[3].key = SecretKey(last.app, last.host)
         /\ last.err.kind = last.calls[3].err
         /\ ~Referenced(TLSOf(ingresses, last.app), last.host)
         /\ ~last.calls[3].applied =>
              /\ last.err # NoErr
              /\ secrets = presecrets
         /\ last.calls[3].applied =>
              secrets = MapDel(presecrets, SecretKey(last.app, last.host))

C16_Witness ==
  /\ last.op = "RemoveCertificate"
  /\ Len(last.calls) = 3
  /\ last.calls[2].applied
  /\ last.calls[3].err = "Failed"
  /\ Referenced(TLSOf(pre, last.app), last.host)
  /\ HasSecret(secrets, last.app, last.host)
  /\ ~Referenced(TLSOf(ingresses, last.app), last.host)

\* C17: a Remove(app) or RemoveCertificate(app, host) whose store calls the
\* store answers with success or NotFound only (the route object or the
\* secret is absent) returns success, and one with a store call that fails
\* otherwise returns that failure.
C17_AbsentTargetIsSuccess ==
  (last.op \in {"RemoveCtx", "RemoveCertificate"} /\ last.err # Panic) =>
    /\ (\A i \in DOMAIN last.calls : last.calls[i].err \in {"nil", "NotFound"}) =>
         last.err = NoErr
    /\ (\E i \in DOMAIN last.calls : last.calls[i].err = "Failed") =>
         last.err = StoreErr("Failed")

\* C20: a GetStatus that has read the primary route object and found it not
\* ready, and whose detail lookup fails or finds nothing, returns the
\* status not-ready with an empty detail and no error.
C20_StatusDegrades ==
  (/\ last.op = "GetStatus"
   /\ ReadPrimary(last)
   /\ ~last.ready
   /\ last.probe \in {"fails", "nothing"}) =>
    /\ last.err = NoErr
    /\ ret.status = BackendStatusNotReady
    /\ ret.detail = ""

\* the application a route object or a secret belongs to: the one its
\* application label names
Owner(obj) == MapGet(obj.Labels, appLabel)

\* the objects of st that belong to another application than app are in
\* st2 as they are in st, and the objects new in st2 belong to app
OthersUntouched(st, st2, app) ==
  /\ \A k \in DOMAIN st :
       Owner(st[k]) # app => (k \in DOMAIN st2 /\ st2[k] = st[k])
  /\ \A k \in DOMAIN st2 \ DOMAIN st : Owner(st2[k]) = app

\* C12: an Ensure, Remove or certificate operation for an application
\* leaves every route object and every secret that belongs to another
\* application as it was, and what it creates belongs to its application,
\* also when both applications request the same alias.
C12_OtherApplicationUntouched ==
  [][/\ OthersUntouched(ingresses, ingresses', last'.app)
     /\ OthersUntouched(secrets, secrets', last'.app)]_vars

\* the primary route objects the call in progress j has read
ReadKeys(j) ==
  {PrimaryKey(j.app)} \cup (IF j.op = "Swap" THEN {PrimaryKey(j.dst)} ELSE {})

\* what the call in progress j read under key
ReadObject(j, key) == IF key = PrimaryKey(j.app) THEN j.g.obj[1] ELSE j.g2.obj[1]

\* the object under key was written after the call in progress j read it
StaleRead(j, st, key) ==
  st[key].ResourceVersion # ReadObject(j, key).ResourceVersion

\* the updates of the route object under key the call issued
UpdatesOf(call, key) ==
  SelectSeq(call.calls,
            LAMBDA e : e.verb = "update" /\ e.kind = "ingress" /\ e.key = key)

\* the error is the conflict of the store, or the rollback error of Swap
\* that names it as the original failure
NamesConflict(err) ==
  \/ err = StoreErr("Conflict")
  \/ err.kind = "failed to rollback swap" /\ err.a = "Conflict"

\* C11: when a call (Ensure, AddCertificate, RemoveCertificate or Swap)
\* goes on after its read of a primary route object that another call has
\* written since, every update of that object it issues carries the stale
\* version token and is refused with a conflict, it issues at most one, the
\* stored object stays as the other call wrote it, and the call returns
\* the conflict.
C11_LaterWriterConflicts ==
  [][\A w \in Workers :
       (jobs[w] # NoJob /\ jobs'[w] = NoJob) =>
         \A key \in ReadKeys(jobs[w]) :
           StaleRead(jobs[w], ingresses, key) =>
             /\ Len(UpdatesOf(last', key)) <= 1
             /\ \A i \in DOMAIN UpdatesOf(last', key) :
                  /\ ~UpdatesOf(last', key)[i].applied
                  /\ UpdatesOf(last', key)[i].err = "Conflict"
             /\ ingresses'[key] = ingresses[key]
             /\ Len(UpdatesOf(last', key)) = 1 => NamesConflict(last'.err)]_vars

C11_Witness ==
  /\ last.op = "Ensure"
  /\ last.err = StoreErr("Conflict")
  /\ Len(UpdatesOf(last, PrimaryKey(last.app))) = 1
  /\ \E i \in DOMAIN pre[PrimaryKey(last.app)].Spec.TLS :
       pre[PrimaryKey(last.app)].Spec.TLS[i].Hosts = <<SharedHost>>
  /\ ingresses = pre

\* the backend of a route object's rule
RuleBackend(obj) == obj.Spec.Rules[1].Backend

\* the backend buildIngressSpec gives for the service resolution selects
SelectedBackend(app) ==
  [ServiceName |-> getWebService(app, AppNamespace(app)).service[1].Name,
   ServicePort |-> getWebService(app, AppNamespace(app)).service[1].Ports[1]]

\* the sibling route objects of app in the store
SiblingKeys(st, app) ==
  {k \in DOMAIN st : /\ MapGet(st[k].Labels, labelCNameIngress) = "true"
                      /\ MapGet(st[k].Labels, appLabel) = app}

\* C21: after a successful Ensure of an application, the rule of its
\* primary route object and the rule of each of its sibling route objects
\* have as backend the service backend resolution selects, with the first
\* port that service declares.
C21_BackendIsSelectedService ==
  (last.op = "Ensure" /\ last.err = NoErr) =>
    /\ RuleBackend(ingresses[PrimaryKey(last.app)]) = SelectedBackend(last.app)
    /\ \A k \in SiblingKeys(ingresses, last.app) :
         RuleBackend(ingresses[k]) = SelectedBackend(last.app)

\* whether the options of the last call delete the annotation CustomKey
DeletesCustomKey == CustomKeyDeleted \in DOMAIN last.opts.AdditionalOpts

\* C22: after a successful Ensure whose options carry the deletion marker
\* for an annotation, the stored primary route object has no such annotation,
\* whatever the object was before the call.
C22_DeletionMarkerRemoves ==
  (last.op = "Ensure" /\ last.err = NoErr /\ DeletesCustomKey) =>
    CustomKey \notin DOMAIN ingresses[PrimaryKey(last.app)].Annotations

\* whether the last step computed a name
IsNaming == last.op \in {"ingressName", "ingressCName", "secretName"}

\* whether two computations had the same inputs
SameInputs(c, d) == c.op = d.op /\ c.app = d.app /\ c.host = d.host

KeyDiffers(existing, desired) ==
  \E key \in DOMAIN desired : key \notin DOMAIN existing \/ existing[key] # desired[key]

\* C24: the comparison of the stored and the desired route object is true
\* when the specs differ, or when a desired annotation or label is missing
\* from the stored object (also a desired empty value) or has another value
\* there, and false otherwise; keys of the stored object alone do not count.
C24_HasChangesExact ==
  last.op = "ingressHasChanges" =>
    ret.hasChanges =
      (\/ ingresses[PrimaryKey(EnsureApp)].Spec # ret.desired.Spec
       \/ KeyDiffers(ingresses[PrimaryKey(EnsureApp)].Annotations, ret.desired.Annotations)
       \/ KeyDiffers(ingresses[PrimaryKey(EnsureApp)].Labels, ret.desired.Labels))

\* the writes of a call's log, in the order they were issued
WritesOf(call) == SelectSeq(call.calls, LAMBDA e : e.verb = "update")

\* whether the log holds a read of the object that succeeded
ReadOk(call, key) ==
  \E i \in DOMAIN call.calls :
    /\ call.calls[i].verb = "get" /\ call.calls[i].key = key
    /\ call.calls[i].applied

\* C25: Swap writes only after both primary route objects were read, writes
\* src first and dst only after the write of src succeeded; when the write
\* of src fails Swap returns that error and dst is never written.
C25_SwapWritesInOrder ==
  (last.op = "Swap" /\ Len(WritesOf(last)) > 0) =>
    /\ ReadOk(last, PrimaryKey(last.app)) /\ ReadOk(last, PrimaryKey(last.dst))
    /\ last.calls[1].verb = "get" /\ last.calls[2].verb = "get"
    /\ WritesOf(last)[1].key = PrimaryKey(last.app)
    /\ Len(WritesOf(last)) > 1 =>
         /\ WritesOf(last)[1].applied
         /\ WritesOf(last)[2].key = PrimaryKey(last.dst)
    /\ ~WritesOf(last)[1].applied =>
         /\ Len(WritesOf(last)) = 1
         /\ last.err.kind = WritesOf(last)[1].err
         /\ last.app # last.dst =>
              ingresses[PrimaryKey(last.dst)] = pre[PrimaryKey(last.dst)]

\* a Swap of two applications whose write of src failed
C25_Witness ==
  /\ last.op = "Swap"
  /\ last.app # last.dst
  /\ Len(WritesOf(last)) = 1
  /\ ~WritesOf(last)[1].applied
  /\ last.err.kind = "Failed"

\* a Swap that wrote src, then dst
C25_WitnessBoth ==
  /\ last.op = "Swap"
  /\ last.err = NoErr
  /\ Len(WritesOf(last)) = 2

\* the single-backend pointer of the application's primary route object
BackendOf(st, app) == st[PrimaryKey(app)].Spec.Backend

\* a step that leaves the application swapped with the same partner, no
\* Swap having ended with a failed rollback
StaysSwapped(app) ==
  /\ ~rollbackFailed
  /\ SwappedWith(ingresses, app) \notin {"", app}
  /\ SwappedWith(ingresses', app) = SwappedWith(ingresses, app)

\* C26: a successful Swap that labels two applications as swapped gives each
\* the backend target the other had before it, and as long as the swap
\* label of an application stays, no other operation (Update in particular)
\* changes the backend target of its primary route object.
C26_SwappedBackendKept ==
  [][/\ (/\ last'.op = "Swap" /\ last'.err = NoErr /\ last'.app # last'.dst
         /\ SwappedWith(ingresses', last'.app) = last'.dst) =>
          /\ BackendOf(ingresses', last'.app) = BackendOf(ingresses, last'.dst)
          /\ BackendOf(ingresses', last'.dst) = BackendOf(ingresses, last'.app)
     /\ \A a \in Apps :
          (last'.op # "Swap" /\ StaysSwapped(a)) =>
            BackendOf(ingresses', a) = BackendOf(ingresses, a)]_vars

\* whether the last call updated the object of key k
Updated(k) ==
  \E i \in DOMAIN last.calls :
    /\ last.calls[i].verb = "update" /\ last.calls[i].key = k
    /\ last.calls[i].applied

\* the spec of the desired primary route object of the last call
DesiredSpec ==
  DesiredIngress(last.app, last.opts,
                 [Service |-> last.app, Namespace |-> AppNamespace(last.app)],
                 getWebService(last.app, AppNamespace(last.app)).service[1],
                 <<>>).Spec

Wrote(k) ==
  \E i \in DOMAIN last.calls :
    /\ last.calls[i].verb \in {"create", "update"} /\ last.calls[i].key = k
    /\ last.calls[i].applied

\* the TLS entry of a host of the application
TLSEntry(app, host) == [Hosts |-> <<host>>, SecretName |-> secretName(app, host)]

\* C28: the primary route object that an Ensure with the ACME flag writes
\* carries the ACME annotation and exactly one TLS entry, of the host of its
\* rule and the secret named after the application and that host; without
\* the flag the desired object, and so the one written, has no TLS entry.
C28_AcmeEntryOfFinalHost ==
  (last.op = "Ensure" /\ Wrote(PrimaryKey(last.app))) =>
    IF last.opts.Acme
      THEN /\ AnnGet(ingresses[PrimaryKey(last.app)].Annotations, AnnotationsACMEKey)
                = <<"true">>
           /\ ingresses[PrimaryKey(last.app)].Spec.Rules[1].Host
                = vhost(last.app, last.opts)
           /\ ingresses[PrimaryKey(last.app)].Spec.TLS
                = <<TLSEntry(last.app, vhost(last.app, last.opts))>>
      ELSE /\ DesiredSpec.TLS = <<>>
           /\ ingresses[PrimaryKey(last.app)].Spec.TLS = <<>>

\* an Ensure with the flag that moved the object to an explicit domain
C28_Witness ==
  /\ last.op = "Ensure"
  /\ last.opts.Acme
  /\ last.opts.Domain = "custom.io"
  /\ Updated(PrimaryKey(last.app))
  /\ pre[PrimaryKey(last.app)].Spec.TLS = <<>>
  /\ ingresses[PrimaryKey(last.app)].Spec.TLS = <<TLSEntry(last.app, "custom.io")>>

\* the key of the sibling route object of an alias
SiblingKey(app, host) == <<AppNamespace(app), ingressCName(app, host)>>

\* whether no entry of a TLS list occurs twice in it
NoTLSTwice(tls) == \A i, j \in DOMAIN tls : tls[i] = tls[j] => i = j

\* C29: the sibling route object that Ensure writes for an alias has exactly
\* one TLS entry, of the alias and the secret named after the application
\* and the alias, when the request has the ACME flag, and none when it has
\* not; and no stored route object has the same TLS entry twice.
C29_SiblingTLSOnce ==
  /\ \A k \in DOMAIN ingresses : NoTLSTwice(ingresses[k].Spec.TLS)
  /\ last.op = "Ensure" =>
       \A i \in DOMAIN last.opts.CNames :
         Wrote(SiblingKey(last.app, last.opts.CNames[i])) =>
           ingresses[SiblingKey(last.app, last.opts.CNames[i])].Spec.TLS
             = IF last.opts.Acme
                 THEN <<TLSEntry(last.app, last.opts.CNames[i])>>
                 ELSE <<>>

\* the keys of the route objects the last call created or updated
WrittenKeys == {k \in DOMAIN ingresses : Wrote(k)}

\* whether the operator and the request both set the annotation CustomKey
BothSetCustomKey ==
  /\ CustomKey \in DOMAIN config.Annotations
  /\ CustomKey \in DOMAIN last.opts.AdditionalOpts

\* C30: whatever labels and annotations the operator fixed and whatever the
\* options of the request, every primary and sibling route object Ensure
\* writes carries the application-name label with the application's name,
\* and an annotation set by both the operator and the request is written
\* with the request's value.
C30_AppLabelAndRequestWin ==
  last.op = "Ensure" =>
    \A k \in WrittenKeys :
      /\ MapGet(ingresses[k].Labels, appLabel) = last.app
      /\ BothSetCustomKey =>
           AnnGet(ingresses[k].Annotations, CustomKey)
             = last.opts.AdditionalOpts[CustomKey]

\* an Ensure that wrote a primary and a sibling route object under an
\* operator who fixed the application-name label and the annotation
C30_Witness ==
  /\ last.op = "Ensure"
  /\ MapGet(config.Labels, appLabel) = "other"
  /\ BothSetCustomKey
  /\ config.Annotations[CustomKey] # last.opts.AdditionalOpts[CustomKey]
  /\ Wrote(PrimaryKey(last.app))
  /\ Wrote(SiblingKey(last.app, "a.io"))

\* the suffix of a request: its own when it supplies one, else the operator's
RequestedSuffix(o) ==
  IF o.DomainSuffix # "" THEN o.DomainSuffix ELSE config.DomainSuffix

\* C31: the host of the primary route object Ensure writes is the explicit
\* domain when the request gives one, and otherwise app.suffix, or
\* prefix.app.suffix when the request has a domain prefix, the suffix being
\* the request's own when it supplies one and the operator's otherwise.
C31_HostOfRequest ==
  (last.op = "Ensure" /\ Wrote(PrimaryKey(last.app))) =>
    ingresses[PrimaryKey(last.app)].Spec.Rules[1].Host
      = IF last.opts.Domain # "" THEN last.opts.Domain
        ELSE IF last.opts.DomainPrefix # ""
          THEN last.opts.DomainPrefix \o "." \o last.app \o "."
                 \o RequestedSuffix(last.opts)
        ELSE last.app \o "." \o RequestedSuffix(last.opts)

\* whether a TLS list holds the entry of a host of the application
HasTLSEntry(tls, app, host) ==
  \E i \in DOMAIN tls : tls[i] = TLSEntry(app, host)

\* C32: a TLS entry that AddCertificate attached to the primary route object
\* (its secret is in the store) is still on the stored object after a later
\* successful Ensure of the application: Ensure leaves no certificate's
\* secret unreferenced.
C32_EnsureKeepsCertificates ==
  (last.op = "Ensure" /\ last.err = NoErr) =>
    \A h \in CertHosts :
      (/\ HasSecret(secrets, last.app, h)
       /\ HasTLSEntry(TLSOf(pre, last.app), last.app, h)) =>
        HasTLSEntry(TLSOf(ingresses, last.app), last.app, h)

\* C33: after a successful Remove of an application no route object of it
\* is in the store: neither its primary route object nor a sibling that an
\* earlier Ensure created.
C33_RemoveLeavesNoRouteObject ==
  (last.op = "RemoveCtx" /\ last.err = NoErr) =>
    /\ ~HasPrimary(ingresses, last.app)
    /\ SiblingKeys(ingresses, last.app) = {}

\* the place of a store call in the order of Ensure's writes: a sibling
\* ensured, a sibling deleted, the primary route object written; 0 for a read
WritePhase(e, app) ==
  IF e.verb \in {"create", "update"}
    THEN (IF e.key = PrimaryKey(app) THEN 3 ELSE 1)
  ELSE IF e.verb = "delete" THEN 2
  ELSE 0

\* whether a write to a sibling failed: a deletion of an absent one does not
SiblingWriteFailed(e, app) ==
  /\ WritePhase(e, app) \in {1, 2}
  /\ e.err \notin {"nil", IF e.verb = "delete" THEN "NotFound" ELSE "nil"}

\* the primary route object of the application, << >> when there is none
PrimaryOf(st, app) == IF HasPrimary(st, app) THEN <<st[PrimaryKey(app)]>> ELSE <<>>

\* C34: the writes of one Ensure are in this order: the siblings of the
\* aliases of the request ensured, the siblings to remove deleted, the
\* primary route object created or updated. When a write to a sibling fails
\* it is the last call of the Ensure, which returns its error, and the
\* stored primary route object is as it was.
C34_EnsureWriteOrder ==
  last.op = "Ensure" =>
    /\ \A i, j \in DOMAIN last.calls :
         (i < j /\ WritePhase(last.calls[i], last.app) > 0
                /\ WritePhase(last.calls[j], last.app) > 0) =>
           WritePhase(last.calls[i], last.app) <= WritePhase(last.calls[j], last.app)
    /\ \A i \in DOMAIN last.calls :
         SiblingWriteFailed(last.calls[i], last.app) =>
           /\ i = Len(last.calls)
           /\ last.err.b = last.calls[i].err
           /\ PrimaryOf(ingresses, last.app) = PrimaryOf(pre, last.app)

\* an Ensure that failed to delete a sibling, the primary route object
\* recording two aliases
C34_Witness ==
  /\ last.op = "Ensure"
  /\ last.err.kind = "could not remove CName"
  /\ HasPrimary(ingresses, last.app)
  /\ AnnotationsCNames \in DOMAIN ingresses[PrimaryKey(last.app)].Annotations
  /\ SiblingWriteFailed(last.calls[Len(last.calls)], last.app)

\* an Ensure that wrote a sibling, deleted another and updated the primary
C34_WitnessAll ==
  /\ last.op = "Ensure"
  /\ last.err = NoErr
  /\ {WritePhase(last.calls[i], last.app) : i \in DOMAIN last.calls} = {0, 1, 2, 3}

\* whether the last call failed while resolving: the namespace, the read of
\* the primary route object (not a NotFound), the backend target or service
ResolutionFailed ==
  \/ last.err.kind \in {"LookupFailed", "ErrNoBackendTarget", "ErrNoService"}
  \/ /\ Len(last.calls) = 1
     /\ last.calls[1].verb = "get" /\ last.calls[1].key = PrimaryKey(last.app)
     /\ last.calls[1].err \notin {"nil", "NotFound"}
     /\ last.err.kind = last.calls[1].err

\* C35: an Ensure that fails in the resolution of the namespace, in the read
\* of the primary route object (but for NotFound) or in the resolution of
\* the backend issues no create, update or delete of a route object, and
\* the store is as it was.
C35_FailedResolutionWritesNothing ==
  (last.op = "Ensure" /\ ResolutionFailed) =>
    /\ ingresses = pre
    /\ \A i \in DOMAIN last.calls : WritePhase(last.calls[i], last.app) = 0

\* an Ensure that found no backend service for an application whose route
\* objects record two aliases
C35_Witness ==
  /\ last.op = "Ensure"
  /\ last.err.kind = "ErrNoService"
  /\ HasPrimary(ingresses, last.app)
  /\ AnnotationsCNames \in DOMAIN ingresses[PrimaryKey(last.app)].Annotations
  /\ last.opts.CNames = <<>>

\* whether the entry of a call's log is the creation of a secret
CreatesSecret(e) == e.kind = "secret" /\ e.verb = "create"

\* C36: an AddCertificate for an application without a primary route object
\* fails and creates no secret; the creation of a secret is issued only
\* after the primary route object was read successfully.
C36_NoSecretWithoutRoute ==
  last.op = "AddCertificate" =>
    /\ ~HasPrimary(pre, last.app) =>
         /\ last.err # NoErr
         /\ secrets = presecrets
         /\ \A i \in DOMAIN last.calls : ~CreatesSecret(last.calls[i])
    /\ \A i \in DOMAIN last.calls :
         CreatesSecret(last.calls[i]) =>
           \E j \in 1..(i - 1) :
             /\ last.calls[j].verb = "get" /\ last.calls[j].kind = "ingress"
             /\ last.calls[j].key = PrimaryKey(last.app)
             /\ last.calls[j].applied

\* an AddCertificate of another host after the primary route object, which
\* had a certificate, was removed
C36_Witness ==
  /\ last.op = "AddCertificate"
  /\ ~HasPrimary(pre, last.app)
  /\ IsNotFound(last.err)
  /\ DOMAIN secrets # {}
  /\ ~HasSecret(secrets, last.app, last.host)

\* the calls the last request's handler made on the service
Invoked(call) == call.host

\* C37: a swap request for backend N naming target T invokes the service's
\* Swap exactly once, with source N and destination T, and reports success
\* when Swap succeeds; a swap request with an empty target returns an error
\* and does not invoke Swap.
C37_SwapRequestInvokesSwap ==
  last.op = "api.swap" =>
    IF last.dst = ""
      THEN last.err # NoErr /\ Invoked(last) = <<>>
    ELSE /\ Invoked(last) = <<<<"Swap", last.app, last.dst>>>>
         /\ last.ready = (last.err = NoErr)

\* the same of the requests that carry the target as a form value
C37_FormRequests ==
  (last.op = "api.swap" /\ last.probe = "form") => C37_SwapRequestInvokesSwap

\* a form request whose Swap succeeded
C37_FormWitness ==
  /\ last.op = "api.swap" /\ last.probe = "form"
  /\ last.dst \notin {"", last.app} /\ last.err = NoErr /\ last.ready

====
